---- MODULE Spec2Model ----
(***************************************************************************)
(* Model of the AcquiSight orchestration layer: the USAspending data-source *)
(* client (usaspending-client.js: retry loop, query construction,           *)
(* pagination), the request handlers of server.js that drive it and the AI  *)
(* providers, and the page-to-PDF generator (pdf-generator.js) behind the   *)
(* two PDF export handlers.                                                 *)
(*                                                                          *)
(* JavaScript values are records tagged by their type in field t, so that   *)
(* undefined, null, "" and [] stay distinct and truthiness is computed as   *)
(* the language computes it.  Template strings are records holding the      *)
(* literal part and the interpolated values.                                *)
(***************************************************************************)
EXTENDS Integers, Sequences, FiniteSets, TLC

\* ---------------------------------------------------------------- bounds
MaxRetry == 3          \* largest retryAttempts option explored
MaxIdLen == 11         \* longest search input explored (characters)

\* ------------------------------------------------------ program constants
DefaultRetryAttempts == 3
ApiMaxLimit == 100
DefaultPage == 1
BackoffBaseMs == 1000
WindowYears == 10
MinAwardIdLen == 10

\* ------------------------------------------------------------- JS values
Undefined == [t |-> "undefined"]
Null == [t |-> "null"]
Num(n) == [t |-> "number", n |-> n]
Bool(b) == [t |-> "boolean", b |-> b]
\* a string is the sequence of its pieces (single characters where the code
\* inspects characters, whole phrases otherwise); "" is the empty sequence
Str(s) == [t |-> "string", s |-> s]
Arr(items) == [t |-> "array", items |-> items]
Obj(fields) == [t |-> "object", fields |-> fields]

\* ToBoolean: undefined, null, 0 and "" are falsy; arrays and objects are truthy
Truthy(v) ==
    CASE v.t = "undefined" -> FALSE
      [] v.t = "null"      -> FALSE
      [] v.t = "number"    -> v.n # 0
      [] v.t = "boolean"   -> v.b
      [] v.t = "string"    -> v.s # <<>>
      [] OTHER             -> TRUE

\* a || b
OrElse(a, b) == IF Truthy(a) THEN a ELSE b

\* destructuring default: applies only when the property is undefined
Default(v, d) == IF v.t = "undefined" THEN d ELSE v

\* obj?.name for a tagged object value, undefined when absent
Field(v, name) ==
    IF v.t = "object" /\ name \in DOMAIN v.fields THEN v.fields[name] ELSE Undefined

RECURSIVE Pow2(_)
Pow2(n) == IF n <= 0 THEN 1 ELSE 2 * Pow2(n - 1)

Min(a, b) == IF a < b THEN a ELSE b

\* ------------------------------------------------------------- state
VARIABLES
    client,       \* the USASpendingClient instance: [constructed, options, retryAttempts, timeout]
    call,         \* the running client method: [op, args, endpoint, method, data]
    pc,           \* position of _makeRequest: none, ready, awaiting, sleeping, returned, thrown
    attempt,      \* loop variable of _makeRequest (0-based)
    lastError,    \* local variable lastError of _makeRequest
    timeline,     \* requests sent and backoff delays started by the running call, in order
    lastOutcome,  \* what the external service answered to the latest attempt
    result,       \* settlement of the running call: pending, returned value or thrown error
    now,          \* calendar date of the host clock
    req,          \* inbound HTTP request being handled by the orchestrator
    searchParams, \* searchParams object built by POST /api/search
    res,          \* HTTP response of the orchestrator: [sent, status, body]
    ai,           \* outbound AI call of an analysis request: [calls, call, timer, failure]
    gen,          \* the running generatePDFFromURL call: [pc, browser, page, closes, exit]
    file,         \* the temporary content PDF on disk: absent, empty or written
    stage,        \* position of a PDF export handler after generatePDFFromURL returned
    pager,        \* the running getAllContractsPaginated call
    doc,          \* the Word export: lines read and children of the document section
    obs           \* what the process shows: errors caught, in order, and responses sent

clientVars == <<client, call, pc, attempt, lastError, timeline, lastOutcome, result>>
serverVars == <<now, req, searchParams, res>>
exportVars == <<ai, gen, file, stage>>
vars == <<client, call, pc, attempt, lastError, timeline, lastOutcome, result,
          now, req, searchParams, res, ai, gen, file, stage, pager, doc, obs>>

\* ------------------------------------------------- errors and outcomes
\* a JS Error: message (string pieces) and the optional axios response
Error(message, response) == [message |-> message, response |-> response]
NoError == [message |-> <<>>, response |-> Null]

HttpResponse(status, data) == Obj([status |-> Num(status), data |-> data])

\* axios settles an attempt: resolved with a response, or rejected with an error
Resolved(status, data) ==
    [resolved |-> TRUE, response |-> HttpResponse(status, data), message |-> <<>>]
Rejected(response, message) ==
    [resolved |-> FALSE, response |-> response, message |-> message]
NoOutcome == [resolved |-> FALSE, response |-> Null, message |-> <<"none">>]

Detail(d) == Obj([detail |-> Str(d)])
StatusMessage(status) == <<"Request failed with status code ", ToString(status)>>

SearchBodyEmpty == Obj([results |-> Arr(<<>>), page_metadata |-> Obj([page |-> Num(1), hasNext |-> Num(0)])])
SearchBodyFull == Obj([results |-> Arr(<<"award-1", "award-2">>), page_metadata |-> Obj([page |-> Num(1), hasNext |-> Num(1)])])
AwardBody == Obj([generated_unique_award_id |-> Str(<<"CONT_AWD_1">>)])

Bodies == {SearchBodyEmpty, SearchBodyFull, AwardBody}
NoBodies == {Undefined, Null, Str(<<>>)}
ClientStatuses == {400, 404, 499}
ServerStatuses == {500, 503}

Outcomes ==
    {Resolved(200, b) : b \in Bodies \cup NoBodies}
    \cup {Rejected(HttpResponse(s, Detail(<<"Award not found">>)), StatusMessage(s)) :
            s \in {404, 503}}
    \cup {Rejected(HttpResponse(s, Undefined), StatusMessage(s)) :
            s \in ClientStatuses \cup ServerStatuses}
    \cup {Rejected(Undefined, <<"Network Error">>),
          Rejected(Undefined, <<"timeout of 30000ms exceeded">>),
          Rejected(Undefined, <<>>)}

\* ---------------------------------------------------- client: constructor
ClientOptions(retry) == Obj([retryAttempts |-> retry])
NoOptions == Obj([timeout |-> Undefined])

DefaultTimeoutMs == 30000

\* variant: the retryAttempts option is not read
ConstructorIgnoringOption(options) ==
    [constructed |-> TRUE,
     options |-> options,
     timeout |-> OrElse(Field(options, "timeout"), Num(DefaultTimeoutMs)).n,
     retryAttempts |-> DefaultRetryAttempts]

Constructor(options) ==
    [constructed |-> TRUE,
     options |-> options,
     timeout |-> OrElse(Field(options, "timeout"), Num(DefaultTimeoutMs)).n,
     retryAttempts |-> OrElse(Field(options, "retryAttempts"), Num(DefaultRetryAttempts)).n]

NoClient == [constructed |-> FALSE, options |-> Null, timeout |-> 0, retryAttempts |-> 0]

\* ------------------------------------------------ client: searchContracts
contractTypes == Arr(<<"A", "B", "C", "D">>)

OptionNames ==
    {"startDate", "endDate", "keywords", "awardAmounts", "recipientSearchText",
     "agencies", "naicsCodes", "pscCodes", "limit", "page", "sort", "order"}

\* an options object; a property the caller left out reads as undefined
Options(given) ==
    Obj([k \in OptionNames |-> IF k \in DOMAIN given THEN given[k] ELSE Undefined])

\* the destructuring of options with its defaults
Destructure(options) ==
    [startDate           |-> Field(options, "startDate"),
     endDate             |-> Field(options, "endDate"),
     keywords            |-> Default(Field(options, "keywords"), Null),
     awardAmounts        |-> Default(Field(options, "awardAmounts"), Null),
     recipientSearchText |-> Default(Field(options, "recipientSearchText"), Null),
     agencies            |-> Default(Field(options, "agencies"), Null),
     naicsCodes          |-> Default(Field(options, "naicsCodes"), Null),
     pscCodes            |-> Default(Field(options, "pscCodes"), Null),
     limit               |-> Default(Field(options, "limit"), Num(ApiMaxLimit)),
     page                |-> Default(Field(options, "page"), Num(DefaultPage)),
     sort                |-> Default(Field(options, "sort"), Str(<<"Award Amount">>)),
     order               |-> Default(Field(options, "order"), Str(<<"desc">>))]

\* adds key k with value v to a filters record when cond holds
AddIf(f, cond, k, v) == IF cond THEN (k :> v) @@ f ELSE f

\* variant: the length test is left out
NonEmptyListNoLength(v) == Truthy(v) /\ v.t = "array"

\* x && x.length > 0
NonEmptyList(v) == Truthy(v) /\ v.t = "array" /\ Len(v.items) > 0

\* agencies.map(agency => ({ name: agency }))
MapAgencies(v) == Arr([i \in 1..Len(v.items) |-> Obj([name |-> v.items[i]])])

BuildFilters(o) ==
    LET f0 == [award_type_codes |-> contractTypes,
               time_period |-> Arr(<<Obj([start_date |-> o.startDate,
                                          end_date |-> o.endDate])>>)]
        f1 == AddIf(f0, Truthy(o.keywords), "keywords", Arr(<<o.keywords>>))
        f2 == AddIf(f1, Truthy(o.awardAmounts), "award_amounts", Arr(<<o.awardAmounts>>))
        f3 == AddIf(f2, Truthy(o.recipientSearchText), "recipient_search_text",
                    Arr(<<o.recipientSearchText>>))
        f4 == AddIf(f3, NonEmptyList(o.agencies), "agencies",
                    IF NonEmptyList(o.agencies) THEN MapAgencies(o.agencies) ELSE Null)
        f5 == AddIf(f4, NonEmptyList(o.naicsCodes), "naics_codes", o.naicsCodes)
        f6 == AddIf(f5, NonEmptyList(o.pscCodes), "psc_codes", o.pscCodes)
    IN  Obj(f6)

SearchFields ==
    <<"Award ID", "Recipient Name", "Start Date", "End Date", "Award Amount",
      "Total Obligation", "Potential Award Amount", "Total Outlays", "Description",
      "Award Type", "Awarding Agency", "Awarding Sub Agency", "Contract Award Type",
      "prime_award_recipient_id", "generated_unique_award_id",
      "Period of Performance Start Date", "Period of Performance Current End Date",
      "Period of Performance Potential End Date", "funding_agency_name",
      "awarding_sub_agency_name", "Treasury Account Symbol", "Program Activity",
      "Object Class", "Number of Offers Received", "Extent Competed",
      "Type of Contract Pricing", "Solicitation Procedures",
      "Fair Opportunity Limited Sources", "Contracting Officer Name",
      "awarding_office_name", "funding_office_name", "Type of Set Aside">>

\* variant: the requested limit is passed through
ClampLimitMissing(limit) == limit

\* Math.min(limit, 100)
ClampLimit(limit) == Num(Min(limit.n, ApiMaxLimit))

SearchPayload(options) ==
    LET o == Destructure(options)
    IN  Obj([filters |-> BuildFilters(o),
             fields  |-> Arr(SearchFields),
             limit   |-> ClampLimit(o.limit),
             page    |-> o.page,
             sort    |-> o.sort,
             order   |-> o.order])

\* ----------------------------------------------- client: getAwardDetails
\* encodeURIComponent on the characters of the identifier
EncodeChar(c) ==
    CASE c = "/" -> <<"%", "2", "F">>
      [] c = " " -> <<"%", "2", "0">>
      [] OTHER   -> <<c>>

RECURSIVE encodeURIComponent(_)
encodeURIComponent(cs) ==
    IF cs = <<>> THEN <<>> ELSE EncodeChar(Head(cs)) \o encodeURIComponent(Tail(cs))

AwardEndpoint(awardId) == <<"awards/">> \o encodeURIComponent(awardId) \o <<"/">>

\* ------------------------------------------------- client: _makeRequest
NoCall == [op |-> "none", args |-> Null, endpoint |-> <<>>, method |-> "", data |-> Null]
Pending == [state |-> "pending"]
Returned(v) == [state |-> "returned", value |-> v]
Thrown(e) == [state |-> "thrown", error |-> e]

Request(n) == [e |-> "request", v |-> n]
Delay(ms) == [e |-> "delay", v |-> ms]

\* error.response?.data?.detail || error.message || 'Unknown error'
ErrorMessage(error) ==
    OrElse(OrElse(Field(Field(error.response, "data"), "detail"), Str(error.message)),
           Str(<<"Unknown error">>)).s

\* variant: status > 400 in place of status >= 400
IsClientErrorAbove400(error) ==
    /\ Truthy(error.response)
    /\ Field(error.response, "status").n > 400
    /\ Field(error.response, "status").n < 500

\* error.response && error.response.status >= 400 && error.response.status < 500
IsClientError(error) ==
    /\ Truthy(error.response)
    /\ Field(error.response, "status").n >= 400
    /\ Field(error.response, "status").n < 500

ClientErrorText(error) ==
    <<"API client error (", ToString(Field(error.response, "status").n), "): ">>
        \o ErrorMessage(error)

AggregateErrorText(retryAttempts, error) ==
    <<"API request failed after ", ToString(retryAttempts), " attempts: ">>
        \o ErrorMessage(error)

\* variant: the exponent counts attempts from 1
BackoffDelayOneBased(k) == Pow2(k + 1) * BackoffBaseMs

\* Math.pow(2, attempt) * 1000
BackoffDelay(k) == Pow2(k) * BackoffBaseMs

\* the error the catch block receives for an attempt that settled with o
CaughtError(o) ==
    IF o.resolved
    THEN Error(<<"Invalid response from API">>, Undefined)
    ELSE Error(o.message, o.response)

\* variant: an empty result list is rejected as well
InvalidResponseOnEmptyList(o) ==
    \/ ~Truthy(o.response)
    \/ ~Truthy(Field(o.response, "data"))
    \/ Field(Field(o.response, "data"), "results") = Arr(<<>>)

\* variant: only an undefined body is rejected
InvalidResponseUndefinedOnly(o) ==
    ~Truthy(o.response) \/ Field(o.response, "data").t = "undefined"

\* !response || !response.data
InvalidResponse(o) == ~Truthy(o.response) \/ ~Truthy(Field(o.response, "data"))

\* variant: attempt === this.retryAttempts
IsLastAttemptOffByOne(k, retryAttempts) == k = retryAttempts

\* attempt === this.retryAttempts - 1
IsLastAttempt(k, retryAttempts) == k = retryAttempts - 1

\* throw lastError || new Error('API request failed')
FallThrough(err) ==
    IF err # NoError THEN Thrown(err) ELSE Thrown(Error(<<"API request failed">>, Undefined))

\* ------------------------------------- client: getAllContractsPaginated
perPage == 100
PauseMs == 500

NoPager ==
    [pc |-> "none", page |-> 0, allResults |-> <<>>, maxResults |-> Null,
     options |-> Null, startDate |-> Undefined, endDate |-> Undefined,
     log |-> <<>>, out |-> Pending]

\* the events of one paginated fetch, in the order they happen: a page
\* request (with the page and limit of its payload), the result list of the
\* page, and a pause
PageRequest(payload) ==
    [e |-> "page", page |-> Field(payload, "page"), limit |-> Field(payload, "limit"),
     items |-> <<>>, ms |-> 0]
Got(items) == [e |-> "got", page |-> Null, limit |-> Null, items |-> items, ms |-> 0]
Pause(ms) == [e |-> "pause", page |-> Null, limit |-> Null, items |-> <<>>, ms |-> ms]

\* { startDate, endDate, limit: perPage, page, ...options }: a property of
\* options replaces the property of the same name written before the spread
PageArgs(p) ==
    Obj(p.options.fields @@
        [startDate |-> p.startDate, endDate |-> p.endDate,
         limit |-> Num(perPage), page |-> Num(p.page)])

\* allResults.slice(0, n)
Slice(seq, n) == SubSeq(seq, 1, Min(n, Len(seq)))

\* the loop body after `await this.searchContracts(...)` settles, up to the
\* next await or the end of the call
PagerContinues(p, settled) ==
    IF p.pc # "fetching" \/ settled.state = "pending" THEN p
    ELSE IF settled.state = "thrown"
    THEN [p EXCEPT !.pc = "thrown", !.out = settled]
    ELSE LET results == OrElse(Field(settled.value, "results"), Arr(<<>>)).items
             all == p.allResults \o results
             got == Append(p.log, Got(results))
         IN  IF Len(results) = 0
             THEN [p EXCEPT !.pc = "returned", !.log = got,
                            !.out = Returned(Arr(p.allResults))]
             ELSE IF Truthy(p.maxResults) /\ Len(all) >= p.maxResults.n
             THEN [p EXCEPT !.pc = "returned", !.log = got,
                            !.allResults = Slice(all, p.maxResults.n),
                            !.out = Returned(Arr(Slice(all, p.maxResults.n)))]
             ELSE IF Len(results) < perPage
             THEN [p EXCEPT !.pc = "returned", !.log = got, !.allResults = all,
                            !.out = Returned(Arr(all))]
             ELSE [p EXCEPT !.pc = "pausing", !.allResults = all, !.page = p.page + 1,
                            !.log = Append(got, Pause(PauseMs))]

\* --------------------------------------------- exporters and AI: state
NoAi == [calls |-> 0, call |-> "none", timer |-> "none", failure |-> NoError]
NoGen == [pc |-> "none", browser |-> "null", page |-> "null", closes |-> <<>>,
          timeout |-> 0, renderWait |-> 0, exit |-> Pending]

\* ----------------------------------------- orchestrator: POST /api/search
NoRequest == [route |-> "none", body |-> Obj([keywords |-> Undefined])]
NoResponse == [sent |-> FALSE, status |-> 0, body |-> Null]
NoParams == Obj([keywords |-> Undefined])

\* res.status(code).json(body); res.json(body) answers with status 200
Json(status, body) == [sent |-> TRUE, status |-> status, body |-> body]

IsLeapYear(y) == (y % 4 = 0 /\ y % 100 # 0) \/ y % 400 = 0

DaysInMonth(y, m) ==
    CASE m = 2 -> IF IsLeapYear(y) THEN 29 ELSE 28
      [] m \in {4, 6, 9, 11} -> 30
      [] OTHER -> 31

\* Date.prototype.setFullYear: month and day are kept, a day that does not
\* exist in the new year overflows into the following month
setFullYear(date, y) ==
    IF date.d > DaysInMonth(y, date.m)
    THEN [y |-> y, m |-> date.m + 1, d |-> date.d - DaysInMonth(y, date.m)]
    ELSE [y |-> y, m |-> date.m, d |-> date.d]

Pad2(n) == IF n < 10 THEN <<"0", ToString(n)>> ELSE <<ToString(n)>>

\* date.toISOString().split('T')[0]
IsoDate(date) == Str(<<ToString(date.y), "-">> \o Pad2(date.m) \o <<"-">> \o Pad2(date.d))

getDefaultDates(today) ==
    LET endDate == today
        startDate == setFullYear(today, today.y - WindowYears)
    IN  [start |-> IsoDate(startDate), end |-> IsoDate(endDate)]

Whitespace == {" ", "\t"}
UpperAlnum == {"A", "Z", "0", "9"}

\* case folding of the /i flag on the characters of the model's alphabet
ToUpper(c) == CASE c = "a" -> "A" [] c = "z" -> "Z" [] OTHER -> c

RECURSIVE TrimStart(_)
TrimStart(cs) ==
    IF cs # <<>> /\ Head(cs) \in Whitespace THEN TrimStart(Tail(cs)) ELSE cs

RECURSIVE TrimEnd(_)
TrimEnd(cs) ==
    IF cs # <<>> /\ cs[Len(cs)] \in Whitespace
    THEN TrimEnd(SubSeq(cs, 1, Len(cs) - 1)) ELSE cs

Trim(cs) == TrimEnd(TrimStart(cs))

\* variant: the pattern without the i flag
LooksLikeAwardIDCaseSensitive(cs) ==
    /\ Len(cs) >= MinAwardIdLen
    /\ \A i \in 1..Len(cs) : cs[i] \in UpperAlnum

\* /^[A-Z0-9]{10,}$/i.test(text)
LooksLikeAwardID(cs) ==
    /\ Len(cs) >= MinAwardIdLen
    /\ \A i \in 1..Len(cs) : ToUpper(cs[i]) \in UpperAlnum

ServerClientTimeoutMs == 60000

\* searchParams as built by the handler for a string input
BuildSearchParams(keywords, today) ==
    LET base == [keywords |-> keywords, limit |-> Num(ApiMaxLimit)]
        dates == getDefaultDates(today)
    IN  IF LooksLikeAwardID(Trim(keywords.s))
        THEN Obj(base)
        ELSE Obj(("startDate" :> dates.start) @@ ("endDate" :> dates.end) @@ base)

\* variant: the underlying message is replaced by a fixed text
SearchFailureFixedMessage(error) ==
    Json(500, Obj([error |-> Str(<<"Failed to search contracts">>),
                   message |-> Str(<<"Internal server error">>)]))

SearchFailure(error) ==
    Json(500, Obj([error |-> Str(<<"Failed to search contracts">>),
                   message |-> Str(error.message)]))

\* variant: a not-found client error is answered with status 404
DetailsFailureNotFound(error) ==
    Json(IF \E i \in 1..Len(error.message) : error.message[i] = "404" THEN 404 ELSE 500,
         Obj([error |-> Str(<<"Failed to get award details">>),
              message |-> Str(error.message)]))

DetailsFailure(error) ==
    Json(500, Obj([error |-> Str(<<"Failed to get award details">>),
                   message |-> Str(error.message)]))

\* { ...details, _api_endpoint, _award_id }
DetailsSuccess(details, awardId) ==
    LET own == [_api_endpoint |->
                    Str(<<"https://api.usaspending.gov/api/v2/awards/">>
                        \o encodeURIComponent(awardId.s) \o <<"/">>),
                _award_id |-> awardId]
    IN  Json(200, Obj(IF details.t = "object" THEN own @@ details.fields ELSE own))

\* ------------------------------------------- catch blocks and responses
\* variant: a catch block that writes nothing to the log
CaughtUnlogged(site, raised) == [site |-> site, logged |-> FALSE, raised |-> raised]

\* an error reaches a catch block: every catch block of the program calls
\* console.error; raised tells whether the block ends by throwing to its
\* caller or by answering 500, rather than by going on
Caught(site, raised) == [site |-> site, logged |-> TRUE, raised |-> raised]

NoObs == [catches |-> <<>>, responses |-> 0]

\* the catch blocks entered and the response sent (res.json, res.send) by
\* one step
Observed(o, caught, sends) ==
    [catches |-> o.catches \o caught,
     responses |-> o.responses + (IF sends THEN 1 ELSE 0)]

\* the catch block of a request handler: logs and answers 500
HandlerCaught == <<Caught("handler", TRUE)>>

\* the routes whose handler awaits a call of the client
ClientRoutes == {"search", "details"}

\* what the handler that awaits the client call does once the call settles
HandlerContinues(request, outcome) ==
    IF request.route = "search"
    THEN IF outcome.state = "returned"
         THEN Json(200, outcome.value)
         ELSE SearchFailure(outcome.error)
    ELSE IF request.route = "details"
    THEN IF outcome.state = "returned"
         THEN DetailsSuccess(outcome.value, Field(request.body, "awardId"))
         ELSE DetailsFailure(outcome.error)
    ELSE NoResponse

\* ------------------------------------------------------------- actions
\* entry of _makeRequest up to its first await (or its exit when the loop
\* body never runs)
EnterMakeRequest(c, op, args, endpoint, method, data) ==
    /\ call' = [op |-> op, args |-> args, endpoint |-> endpoint, method |-> method, data |-> data]
    /\ attempt' = 0
    /\ lastError' = NoError
    /\ lastOutcome' = NoOutcome
    /\ IF 0 < c.retryAttempts
       THEN /\ timeline' = <<Request(1)>>
            /\ pc' = "awaiting"
            /\ result' = Pending
       ELSE /\ timeline' = <<>>
            /\ pc' = "thrown"
            /\ result' = FallThrough(NoError)

NewClient(options) ==
    /\ pc = "none"
    /\ client' = Constructor(options)
    /\ pc' = "ready"
    /\ UNCHANGED <<call, attempt, lastError, timeline, lastOutcome, result>>
    /\ UNCHANGED serverVars
    /\ UNCHANGED <<exportVars, pager>>
    /\ UNCHANGED doc
    /\ UNCHANGED obs

SearchContracts(options) ==
    /\ pc = "ready"
    /\ EnterMakeRequest(client, "searchContracts", options, <<"search/spending_by_award/">>,
                        "POST", SearchPayload(options))
    /\ UNCHANGED client
    /\ UNCHANGED serverVars
    /\ UNCHANGED <<exportVars, pager>>
    /\ UNCHANGED doc
    /\ UNCHANGED obs

GetAwardDetails(awardId) ==
    /\ pc = "ready"
    /\ EnterMakeRequest(client, "getAwardDetails", Str(awardId), AwardEndpoint(awardId), "GET", Null)
    /\ UNCHANGED client
    /\ UNCHANGED serverVars
    /\ UNCHANGED <<exportVars, pager>>
    /\ UNCHANGED doc
    /\ UNCHANGED obs

\* the awaited axios call settles with outcome o: the rest of the try block
\* or the catch block runs, up to the return, the throw or the next await
AttemptSettles(o) ==
    /\ pc = "awaiting"
    /\ lastOutcome' = o
    /\ IF o.resolved /\ ~InvalidResponse(o)
       THEN /\ result' = Returned(Field(o.response, "data"))
            /\ pc' = "returned"
            /\ UNCHANGED <<lastError, timeline>>
       ELSE LET error == CaughtError(o) IN
            /\ lastError' = error
            /\ IF IsClientError(error)
               THEN /\ result' = Thrown(Error(ClientErrorText(error), Undefined))
                    /\ pc' = "thrown"
                    /\ UNCHANGED timeline
               ELSE IF IsLastAttempt(attempt, client.retryAttempts)
               THEN /\ result' = Thrown(Error(AggregateErrorText(client.retryAttempts, error),
                                              Undefined))
                    /\ pc' = "thrown"
                    /\ UNCHANGED timeline
               ELSE /\ timeline' = Append(timeline, Delay(BackoffDelay(attempt)))
                    /\ pc' = "sleeping"
                    /\ UNCHANGED result
    /\ res' = IF pc' \in {"returned", "thrown"} THEN HandlerContinues(req, result') ELSE res
    /\ obs' = LET inLoop == IF o.resolved /\ ~InvalidResponse(o) THEN <<>>
                            ELSE <<Caught("retry", pc' = "thrown")>>
                  inHandler == IF req.route \in ClientRoutes /\ pc' = "thrown"
                               THEN HandlerCaught ELSE <<>>
              IN  Observed(obs, inLoop \o inHandler,
                           req.route \in ClientRoutes /\ pc' \in {"returned", "thrown"})
    /\ pager' = PagerContinues(pager, result')
    /\ UNCHANGED <<client, call, attempt, now, req, searchParams>>
    /\ UNCHANGED exportVars
    /\ UNCHANGED doc

\* the backoff timer fires: attempt++, the loop condition, the next request
SleepDone ==
    /\ pc = "sleeping"
    /\ attempt' = attempt + 1
    /\ IF attempt + 1 < client.retryAttempts
       THEN /\ timeline' = Append(timeline, Request(attempt + 2))
            /\ pc' = "awaiting"
            /\ UNCHANGED result
       ELSE /\ pc' = "thrown"
            /\ result' = FallThrough(lastError)
            /\ UNCHANGED timeline
    /\ res' = IF pc' = "thrown" THEN HandlerContinues(req, result') ELSE res
    /\ obs' = IF req.route \in ClientRoutes /\ pc' = "thrown"
              THEN Observed(obs, HandlerCaught, TRUE)
              ELSE obs
    /\ pager' = PagerContinues(pager, result')
    /\ UNCHANGED <<client, call, lastError, lastOutcome, now, req, searchParams>>
    /\ UNCHANGED exportVars
    /\ UNCHANGED doc

\* POST /api/search with the given JSON body, up to the handler's first await
PostSearch(body) ==
    /\ req.route = "none"
    /\ pc = "none"
    /\ req' = [route |-> "search", body |-> body]
    /\ UNCHANGED now
    /\ UNCHANGED <<exportVars, pager>>
    /\ LET keywords == Field(body, "keywords") IN
       IF ~Truthy(keywords)
       THEN /\ res' = Json(400, Obj([error |-> Str(<<"Keywords are required">>)]))
            /\ obs' = Observed(obs, <<>>, TRUE)
            /\ searchParams' = NoParams
            /\ pc' = "none"
            /\ client' = NoClient
            /\ call' = NoCall
            /\ attempt' = 0
            /\ lastError' = NoError
            /\ lastOutcome' = NoOutcome
            /\ timeline' = <<>>
            /\ result' = Pending
       ELSE IF keywords.t # "string"
       THEN \* keywords.trim is not a function: the TypeError reaches the catch block
            /\ res' = SearchFailure(Error(<<"keywords.trim is not a function">>, Undefined))
            /\ obs' = Observed(obs, HandlerCaught, TRUE)
            /\ searchParams' = NoParams
            /\ pc' = "none"
            /\ client' = Constructor(Obj([timeout |-> Num(ServerClientTimeoutMs)]))
            /\ call' = NoCall
            /\ attempt' = 0
            /\ lastError' = NoError
            /\ lastOutcome' = NoOutcome
            /\ timeline' = <<>>
            /\ result' = Pending
       ELSE /\ client' = Constructor(Obj([timeout |-> Num(ServerClientTimeoutMs)]))
            /\ searchParams' = BuildSearchParams(keywords, now)
            /\ EnterMakeRequest(client', "searchContracts", searchParams', <<"search/spending_by_award/">>,
                                "POST", SearchPayload(searchParams'))
            /\ res' = NoResponse
            /\ UNCHANGED obs
    /\ UNCHANGED doc

\* -------------------------- orchestrator: GET /api/award/details/:awardId
\* the router only matches a non-empty path segment, so awardId is a
\* non-empty string whenever the handler runs
GetDetails(awardId) ==
    /\ req.route = "none"
    /\ pc = "none"
    /\ req' = [route |-> "details", body |-> Obj([awardId |-> Str(awardId)])]
    /\ IF ~Truthy(Str(awardId))
       THEN /\ res' = Json(400, Obj([error |-> Str(<<"Award ID is required">>)]))
            /\ obs' = Observed(obs, <<>>, TRUE)
            /\ UNCHANGED <<client, call, pc, attempt, lastError, timeline, lastOutcome, result>>
       ELSE /\ client' = Constructor(NoOptions)
            /\ EnterMakeRequest(client', "getAwardDetails", Str(awardId),
                                AwardEndpoint(awardId), "GET", Null)
            /\ res' = NoResponse
            /\ UNCHANGED obs
    /\ UNCHANGED <<now, searchParams, exportVars, pager>>
    /\ UNCHANGED doc

\* ------------------------------------- orchestrator: analysis requesters
\* per route: the inputs the handler tests, the delay of the timer the call
\* is raced against (0: no race), the timeout given to the HTTP client of
\* the call (0: none given), and the texts of its responses
AnalysisRoutes ==
    [perplexity |-> [required |-> <<"companyName">>, timerMs |-> 0, transportMs |-> 90000,
                     missing |-> <<"Company name is required">>,
                     failed |-> <<"Failed to analyze with Perplexity AI">>,
                     timeout |-> <<>>],
     gemini     |-> [required |-> <<"companyName">>, timerMs |-> 120000, transportMs |-> 0,
                     missing |-> <<"Company name is required">>,
                     failed |-> <<"Failed to analyze with Gemini AI">>,
                     timeout |-> <<"Gemini API ", "timeout", " after 120 seconds">>],
     contract   |-> [required |-> <<"awardId", "description">>, timerMs |-> 60000, transportMs |-> 0,
                     missing |-> <<"Award ID and description are required">>,
                     failed |-> <<"Failed to research contract">>,
                     timeout |-> <<"Contract research ", "timeout", " after 60 seconds">>],
     tools      |-> [required |-> <<"contractInfo", "awardId">>, timerMs |-> 60000, transportMs |-> 0,
                     missing |-> <<"Contract info and award ID are required">>,
                     failed |-> <<"Failed to research tools">>,
                     timeout |-> <<"Tools research ", "timeout", " after 60 seconds">>],
     gao        |-> [required |-> <<"contractInfo", "awardId">>, timerMs |-> 60000, transportMs |-> 0,
                     missing |-> <<"Contract info and award ID are required">>,
                     failed |-> <<"Failed to research GAO reports">>,
                     timeout |-> <<"GAO research ", "timeout", " after 60 seconds">>],
     summarize  |-> [required |-> <<"detailedAnalysis">>, timerMs |-> 0, transportMs |-> 0,
                     missing |-> <<"Detailed analysis is required">>,
                     failed |-> <<"Failed to summarize analysis">>,
                     timeout |-> <<>>]]

\* variant: only the first of the tested inputs is looked at
MissingInputFirstOnly(body, required) == ~Truthy(Field(body, required[1]))

\* !a || !b over the inputs the handler tests
MissingInput(body, required) ==
    \E i \in 1..Len(required) : ~Truthy(Field(body, required[i]))

\* error.message.includes('timeout')
IncludesTimeout(message) == \E i \in 1..Len(message) : message[i] = "timeout"

\* variant: a failed call is answered as an empty analysis
AnalysisFailureHidden(route, error) ==
    Json(200, Obj([route |-> Str(<<route>>), text |-> Str(<<>>),
                   timeTaken |-> Str(<<"seconds">>)]))

\* the body of the 500 response of an analysis route
AnalysisFailure(route, error) ==
    LET base == [error |-> Str(AnalysisRoutes[route].failed),
                 message |-> Str(error.message)]
    IN  CASE route = "perplexity" ->
               Json(500, Obj([error |-> Str(AnalysisRoutes[route].failed),
                              message |-> OrElse(Field(Field(Field(error.response, "data"),
                                                             "error"), "message"),
                                                 Str(error.message)),
                              details |-> Field(error.response, "data")]))
          [] route = "gemini" ->
               Json(500, Obj([error |-> Str(AnalysisRoutes[route].failed),
                              message |-> Str(error.message),
                              timeout |-> Bool(IncludesTimeout(error.message)),
                              timeTaken |-> Str(<<"seconds">>)]))
          [] OTHER -> Json(500, Obj(base))

AnalysisSuccess(route, text) ==
    Json(200, Obj([route |-> Str(<<route>>), text |-> Str(text),
                   timeTaken |-> Str(<<"seconds">>)]))

\* how the provider settles the call: an answer, an answer the handler
\* cannot read (a TypeError while extracting the text), or a rejection
AiOutcomes ==
    {[kind |-> "answer", error |-> NoError, text |-> <<"analysis text">>],
     [kind |-> "unreadable",
      error |-> Error(<<"Cannot read properties of undefined">>, Undefined), text |-> <<>>],
     [kind |-> "rejected",
      error |-> Error(<<"429 Too Many Requests">>, Undefined), text |-> <<>>],
     [kind |-> "rejected",
      error |-> Error(<<"Request failed with status code 401">>,
                      HttpResponse(401, Obj([error |-> Obj([message |-> Str(<<"Invalid API key">>)])]))),
      text |-> <<>>]}

\* POST to an analysis route, up to the await of the outbound call
PostAnalysis(route, body) ==
    /\ req.route = "none"
    /\ pc = "none"
    /\ req' = [route |-> route, body |-> body]
    /\ IF MissingInput(body, AnalysisRoutes[route].required)
       THEN /\ res' = Json(400, Obj([error |-> Str(AnalysisRoutes[route].missing)]))
            /\ obs' = Observed(obs, <<>>, TRUE)
            /\ UNCHANGED ai
       ELSE /\ ai' = [calls |-> ai.calls + 1, call |-> "pending",
                      timer |-> IF AnalysisRoutes[route].timerMs > 0 THEN "armed" ELSE "none",
                      failure |-> NoError]
            /\ res' = NoResponse
            /\ UNCHANGED obs
    /\ UNCHANGED <<clientVars, now, searchParams, gen, file, stage, pager>>
    /\ UNCHANGED doc

\* variant: the handler goes on at every settlement of a raced promise
RaceOpenAlways(a) == TRUE

\* await Promise.race([call, timeoutPromise]) resumes the handler at the
\* first settlement only: the race is open while the call is pending and
\* the timer has not fired
RaceOpen(a) == a.call = "pending" /\ a.timer # "fired"

\* the outbound AI call settles; the handler answers unless the race was
\* already decided by the timer
AiSettles(o) ==
    /\ ai.call = "pending"
    /\ ai' = [ai EXCEPT !.call = "settled",
                        !.failure = IF RaceOpen(ai) /\ o.kind # "answer" THEN o.error ELSE @]
    /\ res' = IF ~RaceOpen(ai) THEN res
              ELSE IF o.kind = "answer" THEN AnalysisSuccess(req.route, o.text)
              ELSE AnalysisFailure(req.route, o.error)
    /\ obs' = Observed(obs,
                       IF RaceOpen(ai) /\ o.kind # "answer" THEN HandlerCaught ELSE <<>>,
                       RaceOpen(ai))
    /\ UNCHANGED <<clientVars, now, req, searchParams, gen, file, stage, pager>>
    /\ UNCHANGED doc

\* the HTTP client of the call gives up after the transport timeout of the
\* route and rejects the call
TransportTimesOut ==
    /\ req.route \in DOMAIN AnalysisRoutes
    /\ AnalysisRoutes[req.route].transportMs > 0
    /\ AiSettles([kind |-> "rejected", text |-> <<>>,
                  error |-> Error(<<"timeout", " of 90000ms exceeded">>, Undefined)])

\* the setTimeout of the race fires; it is never cleared, so it also fires
\* after the call has settled, and then rejects a promise nobody awaits
TimerFires ==
    /\ ai.timer = "armed"
    /\ ai' = [ai EXCEPT !.timer = "fired",
                        !.failure = IF RaceOpen(ai)
                                    THEN Error(AnalysisRoutes[req.route].timeout, Undefined)
                                    ELSE @]
    /\ res' = IF ~RaceOpen(ai) THEN res
              ELSE AnalysisFailure(req.route,
                                   Error(AnalysisRoutes[req.route].timeout, Undefined))
    /\ obs' = Observed(obs,
                       IF RaceOpen(ai) THEN HandlerCaught ELSE <<>>,
                       RaceOpen(ai))
    /\ UNCHANGED <<clientVars, now, req, searchParams, gen, file, stage, pager>>
    /\ UNCHANGED doc

\* ------------------------------------------------ pdf-generator.js
PdfDefaultTimeoutMs == 90000
FpdsTimeoutMs == 120000
FpdsRenderWaitMs == 10000
RenderWaitMs == 5000

\* url.startsWith('http://') || url.startsWith('https://'); the first piece
\* of a URL string is its scheme prefix
HasHttpScheme(url) ==
    /\ url.s # <<>>
    /\ url.s[1] \in {"http://", "https://"}

\* url.includes('fpds.gov')
IsFpds(url) == \E i \in 1..Len(url.s) : url.s[i] = "fpds.gov"

\* `PDF generation failed: ${error.message}`
Wrapped(message) == <<"PDF generation failed: ">> \o message

\* the awaited steps of the try block, in order
GenNextStep ==
    [launch |-> "newPage", newPage |-> "viewport", viewport |-> "goto",
     goto |-> "render", render |-> "pdf"]

\* variant: the browser is closed only on the way out of closing a page
FinallyEntryPageOnly(g) == IF g.page # "null" THEN "closePage" ELSE "done"

\* where the finally block starts: page.close() if a page exists, else
\* browser.close() if a browser exists, else nothing is left to do
FinallyEntry(g) ==
    IF g.page # "null" THEN "closePage"
    ELSE IF g.browser # "null" THEN "closeBrowser"
    ELSE "done"

\* the catch block: the error is rethrown wrapped once the finally block ends
GenCatch(g, message) ==
    LET thrown == [g EXCEPT !.exit = Thrown(Error(Wrapped(message), Undefined))]
    IN  [thrown EXCEPT !.pc = FinallyEntry(thrown)]

\* after page.pdf() resolved: existence is tested, the size is only logged
GenAfterPdf(g, onDisk) ==
    IF onDisk = "absent"
    THEN GenCatch(g, <<"PDF file was not created">>)
    ELSE [g EXCEPT !.exit = Returned(Str(<<"public/", "report.pdf">>)),
                   !.pc = FinallyEntry(g)]

\* one awaited step of generatePDFFromURL settles.  outcome is "ok", "fail",
\* or, for page.pdf() only, "empty" and "absent": the promise resolved but
\* the file holds no bytes, or no file was written
GenAdvance(g, outcome) ==
    CASE g.pc = "launch" ->
           IF outcome = "ok"
           THEN [g EXCEPT !.browser = "open", !.pc = "newPage"]
           ELSE GenCatch(g, <<"Failed to launch the browser process">>)
      [] g.pc = "newPage" ->
           IF outcome = "ok"
           THEN [g EXCEPT !.page = "open", !.pc = "viewport"]
           ELSE GenCatch(g, <<"Protocol error">>)
      [] g.pc \in {"viewport", "goto"} ->
           IF outcome = "ok"
           THEN [g EXCEPT !.pc = GenNextStep[g.pc]]
           ELSE GenCatch(g, <<"Navigation timeout exceeded">>)
      [] g.pc = "render" -> [g EXCEPT !.pc = "pdf"]
      [] g.pc = "pdf" ->
           IF outcome = "fail" THEN GenCatch(g, <<"Printing failed">>)
           ELSE GenAfterPdf(g, IF outcome = "ok" THEN "written" ELSE outcome)
      [] g.pc = "closePage" ->
           [g EXCEPT !.page = IF outcome = "ok" THEN "closed" ELSE "closeFailed",
                     !.closes = Append(g.closes, "page"),
                     !.pc = "closeBrowser"]
      [] g.pc = "closeBrowser" ->
           [g EXCEPT !.browser = IF outcome = "ok" THEN "closed" ELSE "closeFailed",
                     !.closes = Append(g.closes, "browser"),
                     !.pc = "done"]
      [] OTHER -> g

\* the file page.pdf() leaves on disk
FileAfter(g, outcome, onDisk) ==
    IF g.pc = "pdf" /\ outcome \in {"ok", "empty"}
    THEN (IF outcome = "ok" THEN "written" ELSE "empty")
    ELSE onDisk

\* generatePDFFromURL(url, options) up to its first await
GenStart(url, options) ==
    [NoGen EXCEPT !.pc = "launch",
                  !.timeout = OrElse(Field(options, "timeout"), Num(PdfDefaultTimeoutMs)).n,
                  !.renderWait = IF IsFpds(url) THEN FpdsRenderWaitMs ELSE RenderWaitMs]

\* ------------------------- orchestrator: the two PDF export handlers
PdfRoutes ==
    [usaspending |-> [failed |-> <<"Failed to generate PDF">>,
                      options |-> Obj([timeout |-> Undefined])],
     fpds        |-> [failed |-> <<"Failed to generate FPDS PDF">>,
                      options |-> Obj([timeout |-> Num(FpdsTimeoutMs)])]]

PdfFailure(route, message) ==
    Json(500, Obj([error |-> Str(PdfRoutes[route].failed), message |-> Str(message)]))

\* the awaited steps of the handler after the generator returned the path
StageNext ==
    [cover |-> "font", font |-> "load", load |-> "merged", merged |-> "copyCover",
     copyCover |-> "copyContent", copyContent |-> "save", save |-> "sent"]

\* POST to a PDF export route, up to the await inside generatePDFFromURL
PostPdf(route, body) ==
    LET url == Field(body, "url") IN
    /\ req.route = "none"
    /\ pc = "none"
    /\ req' = [route |-> route, body |-> body]
    /\ IF ~Truthy(url)
       THEN /\ res' = Json(400, Obj([error |-> Str(<<"URL is required">>)]))
            /\ obs' = Observed(obs, <<>>, TRUE)
            /\ UNCHANGED gen
       ELSE IF url.t # "string"
       THEN /\ res' = PdfFailure(route, <<"url.startsWith is not a function">>)
            /\ obs' = Observed(obs, HandlerCaught, TRUE)
            /\ UNCHANGED gen
       ELSE IF ~HasHttpScheme(url)
       THEN /\ res' = PdfFailure(route,
                          <<"Invalid URL format - must start with http:// or https://">>)
            /\ obs' = Observed(obs, HandlerCaught, TRUE)
            /\ UNCHANGED gen
       ELSE /\ res' = NoResponse
            /\ gen' = GenStart(url, PdfRoutes[route].options)
            /\ UNCHANGED obs
    /\ UNCHANGED <<clientVars, now, searchParams, ai, file, stage, pager>>
    /\ UNCHANGED doc

\* the catch block a settling step of the generator enters: the catch of
\* the try block (logs, rethrows wrapped) or one of the two catch blocks of
\* the finally block (log only)
GenCaught(g, after) ==
    IF g.exit.state = "pending" /\ after.exit.state = "thrown"
    THEN <<Caught("generator", TRUE)>>
    ELSE IF g.pc = "closePage" /\ after.page = "closeFailed"
    THEN <<Caught("page.close", FALSE)>>
    ELSE IF g.pc = "closeBrowser" /\ after.browser = "closeFailed"
    THEN <<Caught("browser.close", FALSE)>>
    ELSE <<>>

\* an awaited step of the generator settles; when its finally block has
\* ended, the handler goes on with the returned path or catches the error
GenStep(outcome) ==
    /\ gen.pc \notin {"none", "done"}
    /\ outcome \in {"empty", "absent"} => gen.pc = "pdf"
    /\ outcome = "fail" => gen.pc # "render"
    /\ gen' = GenAdvance(gen, outcome)
    /\ file' = FileAfter(gen, outcome, file)
    /\ IF gen'.pc # "done" THEN UNCHANGED <<res, stage>>
       ELSE IF gen'.exit.state = "thrown"
       THEN /\ res' = PdfFailure(req.route, gen'.exit.error.message)
            /\ UNCHANGED stage
       ELSE /\ stage' = "cover"
            /\ UNCHANGED res
    /\ obs' = LET thrown == gen'.pc = "done" /\ gen'.exit.state = "thrown" IN
              Observed(obs,
                       GenCaught(gen, gen') \o (IF thrown THEN HandlerCaught ELSE <<>>),
                       thrown)
    /\ UNCHANGED <<clientVars, now, req, searchParams, ai, pager>>
    /\ UNCHANGED doc

\* an awaited step of the handler settles.  outcome is "ok", "fail" (the
\* promise rejects) or "syncfail": the synchronous file-system call that
\* follows the step throws (readFileSync after the cover is drawn,
\* unlinkSync after the merged document is saved).  A file without bytes
\* cannot be loaded as a PDF document.
PdfStageSettles(outcome) ==
    /\ stage \in DOMAIN StageNext
    /\ outcome = "syncfail" => stage \in {"font", "save"}
    /\ stage = "load" /\ file = "empty" => outcome = "fail"
    /\ IF outcome = "ok"
       THEN /\ stage' = StageNext[stage]
            /\ file' = IF stage = "save" THEN "absent" ELSE file
            /\ res' = IF stage = "save" THEN Json(200, Str(<<"pdf">>)) ELSE res
            /\ obs' = Observed(obs, <<>>, stage = "save")
       ELSE /\ stage' = "failed"
            /\ res' = PdfFailure(req.route, <<"stage failed: ", stage>>)
            /\ obs' = Observed(obs, HandlerCaught, TRUE)
            /\ UNCHANGED file
    /\ UNCHANGED <<clientVars, now, req, searchParams, ai, gen, pager>>
    /\ UNCHANGED doc

\* --------------------------------- orchestrator: POST /api/generate-word-doc
\* ------------------------------- Markdown-to-Word conversion (word export)
\* a text is the sequence of its characters

startsWith(cs, prefix) ==
    /\ Len(prefix) <= Len(cs)
    /\ SubSeq(cs, 1, Len(prefix)) = prefix

endsWith(cs, suffix) ==
    /\ Len(suffix) <= Len(cs)
    /\ SubSeq(cs, Len(cs) - Len(suffix) + 1, Len(cs)) = suffix

includes(cs, c) == \E i \in 1..Len(cs) : cs[i] = c

\* content.split(/\r?\n/), with cur the line being read
RECURSIVE SplitLines(_, _)
SplitLines(cs, cur) ==
    IF cs = <<>> THEN <<cur>>
    ELSE IF Head(cs) = "\n" THEN <<cur>> \o SplitLines(Tail(cs), <<>>)
    ELSE IF Head(cs) = "\r" /\ Len(cs) >= 2 /\ cs[2] = "\n"
    THEN <<cur>> \o SplitLines(Tail(Tail(cs)), <<>>)
    ELSE SplitLines(Tail(cs), Append(cur, Head(cs)))

\* trimmed.split('|'), with cur the piece being read
RECURSIVE SplitPipes(_, _)
SplitPipes(cs, cur) ==
    IF cs = <<>> THEN <<cur>>
    ELSE IF Head(cs) = "|" THEN <<cur>> \o SplitPipes(Tail(cs), <<>>)
    ELSE SplitPipes(Tail(cs), Append(cur, Head(cs)))

\* the length of the longest run of characters other than stop that starts
\* at position i
RECURSIVE RunLength(_, _, _)
RunLength(cs, i, stop) ==
    IF i > Len(cs) \/ cs[i] = stop THEN 0 ELSE 1 + RunLength(cs, i + 1, stop)

\* trimmed.replace(/\*\*/g, '')
RECURSIVE RemoveBoldMarkers(_)
RemoveBoldMarkers(cs) ==
    IF cs = <<>> THEN <<>>
    ELSE IF startsWith(cs, <<"*", "*">>) THEN RemoveBoldMarkers(SubSeq(cs, 3, Len(cs)))
    ELSE <<Head(cs)>> \o RemoveBoldMarkers(Tail(cs))

\* .replace(/\*\*([^*]+)\*\*/g, '$1')
RECURSIVE StripBold(_)
StripBold(cs) ==
    IF cs = <<>> THEN <<>>
    ELSE LET n == RunLength(cs, 3, "*") IN
         IF /\ startsWith(cs, <<"*", "*">>)
            /\ n >= 1
            /\ startsWith(SubSeq(cs, 3 + n, Len(cs)), <<"*", "*">>)
         THEN SubSeq(cs, 3, 2 + n) \o StripBold(SubSeq(cs, 5 + n, Len(cs)))
         ELSE <<Head(cs)>> \o StripBold(Tail(cs))

\* .replace(/\[([^\]]+)\]\([^)]+\)/g, '$1')
RECURSIVE StripLinks(_)
StripLinks(cs) ==
    IF cs = <<>> THEN <<>>
    ELSE LET n == RunLength(cs, 2, "]")
             m == RunLength(cs, 4 + n, ")")
         IN  IF /\ Head(cs) = "["
                /\ n >= 1
                /\ startsWith(SubSeq(cs, 2 + n, Len(cs)), <<"]", "(">>)
                /\ m >= 1
                /\ 4 + n + m <= Len(cs)
             THEN SubSeq(cs, 2, 1 + n) \o StripLinks(SubSeq(cs, 5 + n + m, Len(cs)))
             ELSE <<Head(cs)>> \o StripLinks(Tail(cs))

\* the shapes of a trimmed line
IsHeadingLine(t) ==
    startsWith(t, <<"*", "*">>) /\ endsWith(t, <<"*", "*">>) /\ ~includes(t, "|")
IsTableLine(t) == startsWith(t, <<"|">>) /\ endsWith(t, <<"|">>)

\* trimmed.match(/^\|[\s:-]+\|$/)
IsSeparator(t) ==
    /\ Len(t) >= 3
    /\ t[1] = "|"
    /\ t[Len(t)] = "|"
    /\ \A i \in 2..(Len(t) - 1) : t[i] \in Whitespace \cup {":", "-"}

\* trimmed.split('|').filter(c => c.trim()).map(c => c.trim())
Cells(t) ==
    LET pieces == SplitPipes(t, <<>>)
        kept == SelectSeq(pieces, LAMBDA c : Trim(c) # <<>>)
    IN  [i \in 1..Len(kept) |-> Trim(kept[i])]

\* the elements of the document; line is the number of the input line
\* whose reading pushed the element (0 for the header block)
Para(kind, text, line) == [kind |-> kind, text |-> text, rows |-> <<>>, line |-> line]
TableOf(rows, line) ==
    [kind |-> "table", text |-> <<>>,
     rows |-> [r \in 1..Len(rows) |->
                 [cells |-> [c \in 1..Len(rows[r].cells) |-> StripLinks(rows[r].cells[c])],
                  line |-> rows[r].line]],
     line |-> line]

NoScan == [inTable |-> FALSE, tableRows |-> <<>>, children |-> <<>>]

\* the header block: title, time of generation, model, search grounding
HeaderBlock(body) ==
    LET grounding == Field(body, "groundingMetadata")
        searches == Field(grounding, "webSearchQueries")
    IN  <<Para("title", Field(body, "title").s, 0),
          Para("generated", <<"Generated: ">>, 0),
          Para("model", <<"Model: ">>, 0)>>
        \o (IF Truthy(grounding) /\ searches.t = "number" /\ searches.n > 0
            THEN <<Para("grounding", <<"Google Search Grounding">>, 0)>>
            ELSE <<>>)

\* the body of the loop for input line number i
ScanLine(s, raw, i) ==
    LET trimmed == Trim(raw) IN
    IF trimmed = <<>>
    THEN IF ~s.inTable
         THEN [s EXCEPT !.children = Append(s.children, Para("blank", <<>>, i))]
         ELSE s
    ELSE IF IsHeadingLine(trimmed)
    THEN [s EXCEPT !.children =
                      Append(s.children, Para("heading", RemoveBoldMarkers(trimmed), i))]
    ELSE IF IsTableLine(trimmed)
    THEN LET rows == IF s.inTable THEN s.tableRows ELSE <<>>
         IN  [s EXCEPT !.inTable = TRUE,
                       !.tableRows = IF IsSeparator(trimmed) THEN rows
                                     ELSE Append(rows, [cells |-> Cells(trimmed), line |-> i])]
    ELSE IF s.inTable
    THEN [s EXCEPT !.inTable = FALSE,
                   !.tableRows = <<>>,
                   !.children =
                      (IF Len(s.tableRows) > 0
                       THEN s.children \o <<TableOf(s.tableRows, i), Para("blank", <<>>, i)>>
                       ELSE s.children)
                      \o <<Para("unstyled", trimmed, i)>>]
    ELSE [s EXCEPT !.children =
                      Append(s.children, Para("paragraph", StripLinks(StripBold(trimmed)), i))]

\* for (const line of lines) { ... } over the lines from number i on
RECURSIVE ScanFrom(_, _, _)
ScanFrom(s, lines, i) ==
    IF i > Len(lines) THEN s ELSE ScanFrom(ScanLine(s, lines[i], i), lines, i + 1)

\* the children of the document section: header block, the elements pushed
\* by the loop, and the table still open at the end of the text
Convert(body) ==
    LET lines == SplitLines(Field(body, "content").s, <<>>)
        s == ScanFrom([NoScan EXCEPT !.children = HeaderBlock(body)], lines, 1)
    IN  [lines |-> lines,
         children |-> IF s.inTable /\ Len(s.tableRows) > 0
                      THEN Append(s.children, TableOf(s.tableRows, Len(lines) + 1))
                      ELSE s.children]

NoDoc == [lines |-> <<>>, children |-> <<>>]

WordFailure(message) ==
    Json(500, Obj([error |-> Str(<<"Failed to generate Word document">>),
                   message |-> Str(message)]))

\* the handler up to `await Packer.toBuffer(doc)`
PostWordDoc(body) ==
    /\ req.route = "none"
    /\ pc = "none"
    /\ req' = [route |-> "word", body |-> body]
    /\ IF MissingInput(body, <<"content", "title">>)
       THEN /\ res' = Json(400, Obj([error |-> Str(<<"Content and title are required">>)]))
            /\ obs' = Observed(obs, <<>>, TRUE)
            /\ UNCHANGED <<stage, doc>>
       ELSE IF Field(body, "content").t # "string"
       THEN /\ res' = WordFailure(<<"content.split is not a function">>)
            /\ obs' = Observed(obs, HandlerCaught, TRUE)
            /\ UNCHANGED <<stage, doc>>
       ELSE /\ res' = NoResponse
            /\ stage' = "packing"
            /\ doc' = Convert(body)
            /\ UNCHANGED obs
    /\ UNCHANGED <<clientVars, now, searchParams, ai, gen, file, pager>>

\* Packer.toBuffer settles; the file name is built from companyName
WordPacked(ok) ==
    /\ stage = "packing"
    /\ stage' = "done"
    /\ res' = IF ~ok THEN WordFailure(<<"Packer failed">>)
              ELSE IF Field(req.body, "companyName").t # "string"
              THEN WordFailure(<<"Cannot read properties of undefined (reading 'replace')">>)
              ELSE Json(200, Str(<<"docx">>))
    /\ obs' = Observed(obs, IF res'.status = 500 THEN HandlerCaught ELSE <<>>, TRUE)
    /\ UNCHANGED <<clientVars, now, req, searchParams, ai, gen, file, pager>>
    /\ UNCHANGED doc

\* ------------------------------ client: getAllContractsPaginated (steps)
\* one iteration of the loop up to the await inside _makeRequest
PagerRequests(p) ==
    /\ EnterMakeRequest(client, "searchContracts", PageArgs(p),
                        <<"search/spending_by_award/">>, "POST", SearchPayload(PageArgs(p)))
    /\ pager' = PagerContinues(
                    [p EXCEPT !.pc = "fetching",
                              !.log = Append(p.log, PageRequest(SearchPayload(PageArgs(p))))],
                    result')

\* getAllContractsPaginated(startDate, endDate, maxResults = null, options = {})
GetAllContractsPaginated(startDate, endDate, maxResults, options) ==
    /\ pc = "ready"
    /\ pager.pc = "none"
    /\ PagerRequests([NoPager EXCEPT !.page = 1,
                                     !.maxResults = Default(maxResults, Null),
                                     !.options = Default(options, Obj([x \in {} |-> Undefined])),
                                     !.startDate = startDate, !.endDate = endDate])
    /\ UNCHANGED <<client, serverVars, exportVars>>
    /\ UNCHANGED doc
    /\ UNCHANGED obs

\* the rate-limiting sleep ends: the loop requests the next page
PauseDone ==
    /\ pager.pc = "pausing"
    /\ PagerRequests(pager)
    /\ UNCHANGED <<client, serverVars, exportVars>>
    /\ UNCHANGED doc
    /\ UNCHANGED obs

\* ------------------------------------------------------------- inputs
RetryOptions == {Undefined} \cup {Num(n) : n \in (0 - 1)..MaxRetry}

AwardIds == {<<"C", "O", "N", "T", "_", "1">>, <<"A", "/", "B", " ", "1">>}

\* options of the direct calls explored together with every retry setting
FewOptions ==
    {Options([keywords |-> Str(<<"cloud">>)]),
     Options([limit |-> Num(500), page |-> Num(2)])}

KeywordValues == {Undefined, Null, Str(<<>>), Str(<<"cloud">>)}
AmountValues == {Undefined, Null, Obj([lower_bound |-> Num(1000000)])}
TextValues == {Undefined, Str(<<>>), Str(<<"Acme">>)}
ListValues(x) == {Undefined, Arr(<<>>), Arr(<<x>>)}
LimitValues == {Undefined, Num(1), Num(100), Num(101), Num(500)}
PageValues == {Undefined, Num(0 - 1), Num(0), Num(1), Num(2)}
DateValues == {Undefined, Str(<<"2024", "-", "01", "-", "01">>)}

\* every combination of the six filter options, paging left to its defaults
FilterOptions ==
    {Options([keywords |-> k, awardAmounts |-> a, recipientSearchText |-> r,
              agencies |-> g, naicsCodes |-> n, pscCodes |-> p]) :
        k \in KeywordValues, a \in AmountValues, r \in TextValues,
        g \in ListValues("NASA"), n \in ListValues("541512"), p \in ListValues("D302")}

\* every combination of limit, page and dates
PagingOptions ==
    {Options([limit |-> l, page |-> p, startDate |-> d, endDate |-> d,
              keywords |-> Str(<<"cloud">>)]) :
        l \in LimitValues, p \in PageValues, d \in DateValues}

AllOptions == FilterOptions \cup PagingOptions

Dates ==
    {[y |-> 2026, m |-> 11, d |-> 3], [y |-> 2024, m |-> 2, d |-> 29],
     [y |-> 2025, m |-> 1, d |-> 1], [y |-> 2025, m |-> 12, d |-> 31]}

Patterns == {<<"A", "Z", "0", "9">>, <<"a", "z">>, <<"A", "z", "9", "a">>}
OtherChars == {"-", " "}
Pads == {<<>>, <<" ">>, <<"\t">>}
Lengths == {1} \cup ((MinAwardIdLen - 2)..MaxIdLen)

\* n characters of the pattern, one of them replaced by ch when pos is in 1..n
Core(n, pat, pos, ch) ==
    [i \in 1..n |-> IF i = pos THEN ch ELSE pat[((i - 1) % Len(pat)) + 1]]

\* where the replaced character sits in a core of n characters (0: nowhere)
Position(where, n) ==
    CASE where = "first"  -> 1
      [] where = "middle" -> MinAwardIdLen \div 2
      [] where = "last"   -> n
      [] OTHER            -> 0

InputStrings ==
    {pre \o Core(n, pat, Position(where, n), ch) \o post :
        pre \in {<<>>, <<" ">>}, post \in {<<>>, <<"\t">>},
        n \in Lengths, pat \in Patterns,
        where \in {"nowhere", "first", "middle", "last"}, ch \in OtherChars}
    \cup Pads

SearchRequestBodies ==
    {Obj([keywords |-> k]) :
        k \in {Undefined, Num(1234567890)} \cup {Str(cs) : cs \in InputStrings}}

\* ------------------------------------------------------ specifications
InitCommon ==
    /\ client = NoClient
    /\ call = NoCall
    /\ pc = "none"
    /\ attempt = 0
    /\ lastError = NoError
    /\ timeline = <<>>
    /\ lastOutcome = NoOutcome
    /\ result = Pending
    /\ req = NoRequest
    /\ searchParams = NoParams
    /\ res = NoResponse
    /\ ai = NoAi
    /\ gen = NoGen
    /\ file = "absent"
    /\ stage = "none"
    /\ pager = NoPager
    /\ doc = NoDoc
    /\ obs = NoObs

\* the client used directly, under every retry setting
Init == InitCommon /\ now \in {[y |-> 2026, m |-> 11, d |-> 3]}

Construct == \E r \in RetryOptions : NewClient(ClientOptions(r))
Search == \E o \in FewOptions : SearchContracts(o)
Details == \E id \in AwardIds : GetAwardDetails(id)
Settle == \E o \in Outcomes : AttemptSettles(o)

Next == Construct \/ Search \/ Details \/ Settle \/ SleepDone

Spec == Init /\ [][Next]_vars

\* query construction: a default client and every options value
ConstructDefault == NewClient(NoOptions)
SearchAny == \E o \in AllOptions : SearchContracts(o)

NextQuery == ConstructDefault \/ SearchAny \/ Settle \/ SleepDone

SpecQuery == Init /\ [][NextQuery]_vars

\* the orchestrator: POST /api/search on any date, with any keywords input
InitServer == InitCommon /\ now \in Dates

Post == \E b \in SearchRequestBodies : PostSearch(b)

NextServer == Post \/ Settle \/ SleepDone

SpecServer == InitServer /\ [][NextServer]_vars

\* the paginated fetch: a default client, every cap and a few options
MaxPages == 3          \* full pages the external service answers with

CapValues == {Undefined, Num(0), Num(1), Num(100), Num(150)}

\* options objects holding only the properties the caller wrote
PagerOptions ==
    {Undefined,
     Obj([keywords |-> Str(<<"cloud">>)]),
     Obj([page |-> Num(2)]),
     Obj([limit |-> Num(10)])}

PageSizes == {0, 1, 10, perPage}

\* the n results of a page: distinct per page and position
PageBody(page, n) == Obj([results |-> Arr([i \in 1..n |-> page * 1000 + i])])

PagesRequested == Len(SelectSeq(pager.log, LAMBDA ev : ev.e = "page"))

\* what the external service can answer to the page request in flight: at
\* most as many results as the payload's limit, a body without a result
\* list, or a failure
PageOutcomes ==
    {Resolved(200, PageBody(Field(call.data, "page").n, n)) :
        n \in {k \in PageSizes :
                 /\ k <= Field(call.data, "limit").n
                 /\ k = Field(call.data, "limit").n => PagesRequested < MaxPages}}
    \cup {Resolved(200, Obj([page_metadata |-> Obj([hasNext |-> Num(0)])])),
          Rejected(Undefined, <<"Network Error">>),
          Rejected(HttpResponse(400, Detail(<<"Invalid filters">>)), StatusMessage(400))}

InitPager == InitCommon /\ now \in {[y |-> 2026, m |-> 11, d |-> 3]}

Paginate ==
    \E cap \in CapValues : \E o \in PagerOptions :
        GetAllContractsPaginated(Str(<<"2024", "-", "01", "-", "01">>),
                                 Str(<<"2024", "-", "12", "-", "31">>), cap, o)
SettlePage == pc = "awaiting" /\ \E o \in PageOutcomes : AttemptSettles(o)

NextPager == ConstructDefault \/ Paginate \/ SettlePage \/ SleepDone \/ PauseDone

SpecPager == InitPager /\ [][NextPager]_vars

\* every endpoint of the orchestrator, one request per behaviour
InputValues == {Undefined, Str(<<>>), Str(<<"x">>)}

ApiSearchBodies ==
    {Obj([keywords |-> k]) :
        k \in {Undefined, Str(<<>>), Num(1234567890), Str(<<"c", "l", "o", "u", "d">>),
               Str(<<"C", "O", "N", "T", "_", "A", "W", "D", "_", "1">>)}}

\* path segments the router hands to the details handler
ApiAwardIds == AwardIds

AnalysisBodies(route) ==
    CASE route \in {"perplexity", "gemini"} ->
           {Obj([companyName |-> c, description |-> d]) :
               c \in InputValues, d \in InputValues}
      [] route = "contract" ->
           {Obj([awardId |-> a, description |-> d]) :
               a \in InputValues, d \in InputValues}
      [] route \in {"tools", "gao"} ->
           {Obj([contractInfo |-> c, awardId |-> a]) :
               c \in InputValues, a \in InputValues}
      [] OTHER ->
           {Obj([detailedAnalysis |-> a, companyName |-> c]) :
               a \in InputValues, c \in InputValues}

WordBodies ==
    {Obj([content |-> c, title |-> t, companyName |-> n]) :
        c \in InputValues \cup {Num(7)}, t \in InputValues, n \in InputValues}

UrlValues ==
    {Undefined, Str(<<>>), Num(7), Str(<<"ftp://", "host/file">>),
     Str(<<"https://", "www.usaspending.gov", "/award/1">>),
     Str(<<"https://", "www.", "fpds.gov", "/ezsearch">>)}

PdfBodies == {Obj([url |-> u, awardId |-> a]) : u \in UrlValues, a \in {Undefined, Str(<<"x">>)}}

InitApi == InitCommon /\ now \in {[y |-> 2026, m |-> 11, d |-> 3]}

PostApiSearch == \E b \in ApiSearchBodies : PostSearch(b)
Get == \E id \in ApiAwardIds : GetDetails(id)
Analyze == \E r \in DOMAIN AnalysisRoutes : \E b \in AnalysisBodies(r) : PostAnalysis(r, b)
AiAnswers == \E o \in AiOutcomes : AiSettles(o)
Word == \E b \in WordBodies : PostWordDoc(b)
Packed == \E ok \in BOOLEAN : WordPacked(ok)
Pdf == \E r \in DOMAIN PdfRoutes : \E b \in PdfBodies : PostPdf(r, b)
Generate == \E o \in {"ok", "fail", "empty", "absent"} : GenStep(o)
Assemble == \E o \in {"ok", "fail", "syncfail"} : PdfStageSettles(o)

NextApi ==
    \/ PostApiSearch \/ Get \/ Settle \/ SleepDone
    \/ Analyze \/ AiAnswers \/ TransportTimesOut \/ TimerFires
    \/ Word \/ Packed
    \/ Pdf \/ Generate \/ Assemble

SpecApi == InitApi /\ [][NextApi]_vars

\* the Word export on every text of up to MaxLines sample lines
MaxLines == 3          \* longest text explored (lines)

\* one line of each shape: blank, bold-only, table rows of one and two
\* columns, a row with an empty cell, separators of one and two columns, and
\* text with bold markers and a link
SampleLines ==
    {<<>>,
     <<"*", "*", "H", "*", "*">>,
     <<"|", "a", "|">>,
     <<"|", "a", "|", "b", "|">>,
     <<"|", "a", "|", "|", "b", "|">>,
     <<"|", ":", "-", "|">>,
     <<"|", "-", "|", "-", "|">>,
     <<"*", "*", "b", "*", "*", " ", "[", "l", "]", "(", "u", ")">>}

Texts == UNION {[1..n -> SampleLines] : n \in 1..MaxLines}

\* lines.join('\n')
RECURSIVE JoinLines(_)
JoinLines(lines) ==
    IF Len(lines) = 0 THEN <<>>
    ELSE IF Len(lines) = 1 THEN lines[1]
    ELSE lines[1] \o <<"\n">> \o JoinLines(Tail(lines))

WordExportBodies ==
    {Obj([content |-> Str(JoinLines(ls)), title |-> Str(<<"T">>),
          companyName |-> Str(<<"A">>), groundingMetadata |-> g]) :
        ls \in Texts, g \in {Undefined, Obj([webSearchQueries |-> Num(2)])}}

InitWord == InitCommon /\ now \in {[y |-> 2026, m |-> 11, d |-> 3]}

Export == \E b \in WordExportBodies : PostWordDoc(b)

NextWord == Export \/ Packed

SpecWord == InitWord /\ [][NextWord]_vars

\* ------------------------------------------------- properties: helpers
Requests == SelectSeq(timeline, LAMBDA ev : ev.e = "request")
DelaysTaken == SelectSeq(timeline, LAMBDA ev : ev.e = "delay")
Last(seq) == seq[Len(seq)]

\* HTTP status of the answer to the latest attempt, 0 when there was none
StatusOf(o) ==
    IF o.response.t = "object" THEN Field(o.response, "status").n ELSE 0

AnsweredClientError(o) == ~o.resolved /\ StatusOf(o) >= 400 /\ StatusOf(o) <= 499
AnsweredBody(o) == o.resolved /\ Field(o.response, "data").t = "object"
AnsweredNoBody(o) == o.resolved /\ Field(o.response, "data") \in NoBodies
AnsweredRetryable(o) ==
    /\ o # NoOutcome
    /\ ~o.resolved
    /\ ~AnsweredClientError(o)

\* the k-th backoff delay in milliseconds: 1000, 2000, 4000, ...
RECURSIVE Doubling(_)
Doubling(k) == IF k <= 1 THEN 1000 ELSE 2 * Doubling(k - 1)

\* tail occurs as a suffix of seq
EndsWith(seq, tail) ==
    /\ Len(tail) <= Len(seq)
    /\ SubSeq(seq, Len(seq) - Len(tail) + 1, Len(seq)) = tail

Contains(seq, piece) == \E i \in 1..Len(seq) : seq[i] = piece

\* ------------------------------------------------------------------ C1
\* C1: an attempt answered with an HTTP status in 400..499 ends the call at
\* once, on whichever attempt it happens: the call has thrown the client
\* error, the request of that attempt is the last event of the call (no
\* backoff delay, no further request), and a getAwardDetails call answered
\* 404 on its first attempt has sent exactly one request.
C1_ClientErrorFailsImmediately ==
    AnsweredClientError(lastOutcome) =>
        /\ pc = "thrown"
        /\ result.state = "thrown"
        /\ Contains(result.error.message, ToString(StatusOf(lastOutcome)))
        /\ Len(Requests) = attempt + 1
        /\ Len(DelaysTaken) = attempt
        /\ Last(timeline) = Request(attempt + 1)
        /\ (call.op = "getAwardDetails" /\ StatusOf(lastOutcome) = 404 /\ attempt = 0
                => timeline = <<Request(1)>>)

C1_Witness ==
    /\ call.op = "getAwardDetails"
    /\ StatusOf(lastOutcome) = 404
    /\ ~lastOutcome.resolved
    /\ pc = "thrown"
    /\ timeline = <<Request(1)>>

\* ------------------------------------------------------------------ C2
\* C2: with a positive integer retryAttempts given to the constructor, one
\* call sends at most that many requests; with none given, at most 3.
C2_AtMostRetryAttemptsRequests ==
    LET given == Field(client.options, "retryAttempts") IN
    /\ (given.t = "number" /\ given.n > 0) => Len(Requests) <= given.n
    /\ (client.constructed /\ given.t = "undefined") => Len(Requests) <= 3

C2_Witness ==
    /\ Field(client.options, "retryAttempts") = Num(2)
    /\ Len(Requests) = 2
    /\ pc = "thrown"
    /\ AnsweredRetryable(lastOutcome)

\* ------------------------------------------------------------------ C3
\* C3: requests and backoff delays alternate, the delay after the failed
\* attempt k being 2^(k-1) x 1000 ms; a retryable failure of attempt k with
\* k < retryAttempts puts the call into that delay, and no request is sent
\* while the call sleeps.
C3_ExponentialBackoff ==
    /\ \A i \in 1..Len(timeline) :
          IF i % 2 = 1
          THEN timeline[i] = Request((i + 1) \div 2)
          ELSE timeline[i] = Delay(Doubling(i \div 2))
    /\ (/\ pc \in {"sleeping", "returned", "thrown"}
        /\ AnsweredRetryable(lastOutcome) \/ AnsweredNoBody(lastOutcome)
        /\ attempt + 1 < client.retryAttempts)
          => /\ pc = "sleeping"
             /\ Last(timeline) = Delay(Doubling(attempt + 1))
    /\ pc = "sleeping" => Last(timeline).e = "delay"

C3_Witness ==
    /\ pc = "awaiting"
    /\ timeline = <<Request(1), Delay(1000), Request(2), Delay(2000), Request(3)>>

\* ------------------------------------------------------------------ C4
\* C4: when attempt j+1 of a searchContracts call is answered with a body
\* after j retryable failures, the call returns that body unchanged (an
\* empty result list included), exactly j backoff delays were taken (1s and
\* 2s for j = 2) and the successful request is the last event of the call.
C4_SuccessAfterRetries ==
    (call.op = "searchContracts" /\ AnsweredBody(lastOutcome)) =>
        /\ pc = "returned"
        /\ result = Returned(Field(lastOutcome.response, "data"))
        /\ Len(DelaysTaken) = attempt
        /\ Len(Requests) = attempt + 1
        /\ Last(timeline) = Request(attempt + 1)
        /\ (attempt = 2 => DelaysTaken = <<Delay(1000), Delay(2000)>>)

C4_Witness ==
    /\ call.op = "searchContracts"
    /\ attempt = 2
    /\ pc = "returned"
    /\ result = Returned(SearchBodyEmpty)
    /\ DelaysTaken = <<Delay(1000), Delay(2000)>>

\* ------------------------------------------------------------------ C5
\* C5: when the last of the retryAttempts attempts fails with a retryable
\* error, the call throws one error whose message names the attempt count
\* and ends with the message of that last failure; retryAttempts-1 delays
\* were taken and the last event of the call is the final request.
MessageOfAnswer(o) ==
    IF Field(Field(o.response, "data"), "detail").t = "string"
       /\ Field(Field(o.response, "data"), "detail").s # <<>>
    THEN Field(Field(o.response, "data"), "detail").s
    ELSE IF o.message # <<>> THEN o.message ELSE <<"Unknown error">>

C5_AggregateErrorAfterExhaustion ==
    (/\ pc # "awaiting"
     /\ AnsweredRetryable(lastOutcome)
     /\ attempt + 1 >= client.retryAttempts) =>
        /\ pc = "thrown"
        /\ attempt = client.retryAttempts - 1
        /\ result.state = "thrown"
        /\ SubSeq(result.error.message, 1, 3) =
              <<"API request failed after ", ToString(client.retryAttempts), " attempts: ">>
        /\ EndsWith(result.error.message, MessageOfAnswer(lastOutcome))
        /\ Len(result.error.message) = 3 + Len(MessageOfAnswer(lastOutcome))
        /\ Len(Requests) = client.retryAttempts
        /\ Len(DelaysTaken) = client.retryAttempts - 1
        /\ Last(timeline) = Request(client.retryAttempts)

C5_Witness ==
    /\ pc = "thrown"
    /\ client.retryAttempts = 3
    /\ attempt = 2
    /\ StatusOf(lastOutcome) = 500
    /\ DelaysTaken = <<Delay(1000), Delay(2000)>>
    /\ result.error.message =
          <<"API request failed after ", "3", " attempts: ",
            "Request failed with status code ", "500">>

\* ------------------------------------------------------------------ C6
\* C6: an attempt that resolved without a body is a failed attempt that
\* counts toward the budget: it is followed by the backoff delay and then a
\* new attempt, or by the aggregate failure if it was the last attempt; it
\* is never returned and never reported as a client (4xx) error.
C6_NoBodyCountsAsFailedAttempt ==
    AnsweredNoBody(lastOutcome) =>
        /\ result.state # "returned"
        /\ pc \in {"sleeping", "awaiting", "thrown"}
        /\ pc = "sleeping" =>
              /\ attempt + 1 < client.retryAttempts
              /\ Last(timeline) = Delay(Doubling(attempt + 1))
        /\ pc = "awaiting" =>
              /\ attempt >= 1
              /\ SubSeq(timeline, Len(timeline) - 1, Len(timeline)) =
                    <<Delay(Doubling(attempt)), Request(attempt + 1)>>
        /\ pc = "thrown" =>
              /\ attempt = client.retryAttempts - 1
              /\ result.error.message =
                    <<"API request failed after ", ToString(client.retryAttempts),
                      " attempts: ", "Invalid response from API">>

C6_Witness ==
    /\ AnsweredNoBody(lastOutcome)
    /\ Field(lastOutcome.response, "status") = Num(200)
    /\ pc = "awaiting"
    /\ attempt = 1
    /\ timeline = <<Request(1), Delay(1000), Request(2)>>

\* ------------------------------------------------------------------ C7
\* C7: the limit of the payload sent by searchContracts is min(requested
\* limit, 100): never above 100, the requested value when that is at most
\* 100, and 100 when no limit was requested.
C7_LimitIsMinOfRequestedAnd100 ==
    call.op = "searchContracts" =>
        LET requested == Field(call.args, "limit")
            sent == Field(call.data, "limit")
        IN  /\ sent.t = "number"
            /\ sent.n <= 100
            /\ requested.t = "number" =>
                  sent.n = IF requested.n <= 100 THEN requested.n ELSE 100
            /\ requested.t = "undefined" => sent.n = 100

C7_Witness ==
    /\ call.op = "searchContracts"
    /\ Field(call.args, "limit") = Num(500)
    /\ Field(call.data, "limit") = Num(100)
    /\ timeline = <<Request(1)>>

\* ------------------------------------------------------------------ C8
\* C8: every payload sent by searchContracts has page >= 1 and limit <= 100,
\* whatever page the caller passed (0 and negative pages included).
C8_PageAtLeastOne ==
    call.op = "searchContracts" =>
        /\ Field(call.data, "page").n >= 1
        /\ Field(call.data, "limit").n <= 100

\* ------------------------------------------------------------------ C9
OptionOfKey ==
    [keywords              |-> "keywords",
     recipient_search_text |-> "recipientSearchText",
     agencies              |-> "agencies",
     naics_codes           |-> "naicsCodes",
     psc_codes             |-> "pscCodes",
     award_amounts         |-> "awardAmounts"]

SentFilters == Field(call.data, "filters").fields

Supplied(v) == v.t \notin {"undefined", "null"}

\* a value the filter can use: a non-empty string, a non-empty list, an object
Usable(v) ==
    CASE v.t = "string" -> v.s # <<>>
      [] v.t = "array"  -> v.items # <<>>
      [] v.t = "object" -> TRUE
      [] OTHER          -> FALSE

FixedFilterKeys ==
    /\ {"award_type_codes", "time_period"} \subseteq DOMAIN SentFilters
    /\ DOMAIN SentFilters \subseteq {"award_type_codes", "time_period"} \cup DOMAIN OptionOfKey
    /\ SentFilters.award_type_codes = Arr(<<"A", "B", "C", "D">>)
    /\ SentFilters.time_period =
          Arr(<<Obj([start_date |-> Field(call.args, "startDate"),
                     end_date |-> Field(call.args, "endDate")])>>)

\* C9 as stated: the fixed keys are always there and each optional key is
\* present exactly when its option was supplied.
C9_KeyPresentIffSupplied ==
    call.op = "searchContracts" =>
        /\ FixedFilterKeys
        /\ \A k \in DOMAIN OptionOfKey :
              k \in DOMAIN SentFilters <=> Supplied(Field(call.args, OptionOfKey[k]))

\* C9 (amended): the fixed award-type set and the time_period are always
\* there; each optional key is present exactly when its option holds a
\* usable value (a non-empty string, an object, a non-empty list), and a key
\* that is present holds a non-empty list; an option left out, null, "" or
\* [] is not a key of the filters.
C9_KeyPresentIffUsable ==
    call.op = "searchContracts" =>
        /\ FixedFilterKeys
        /\ \A k \in DOMAIN OptionOfKey :
              /\ k \in DOMAIN SentFilters <=> Usable(Field(call.args, OptionOfKey[k]))
              /\ k \in DOMAIN SentFilters =>
                    /\ SentFilters[k].t = "array"
                    /\ SentFilters[k].items # <<>>

C9_Witness ==
    /\ call.op = "searchContracts"
    /\ Field(call.args, "agencies") = Arr(<<>>)
    /\ Field(call.args, "keywords") = Str(<<>>)
    /\ Field(call.args, "awardAmounts") = Null
    /\ Field(call.args, "naicsCodes") = Arr(<<"541512">>)
    /\ Field(call.args, "pscCodes") = Undefined
    /\ Field(call.args, "recipientSearchText") = Str(<<"Acme">>)
    /\ DOMAIN SentFilters =
          {"award_type_codes", "time_period", "naics_codes", "recipient_search_text"}
    /\ timeline = <<Request(1)>>

\* ----------------------------------------------------------------- C10
AlnumAnyCase == {"A", "Z", "a", "z", "0", "9"}

\* the text between the first and the last non-blank character
Stripped(cs) ==
    LET solid == {i \in 1..Len(cs) : cs[i] \notin Whitespace}
    IN  IF solid = {} THEN <<>>
        ELSE SubSeq(cs, CHOOSE i \in solid : \A j \in solid : i <= j,
                        CHOOSE i \in solid : \A j \in solid : i >= j)

IdentifierShaped(cs) ==
    /\ Len(cs) >= 10
    /\ \A i \in 1..Len(cs) : cs[i] \in AlnumAnyCase

\* the same calendar day ten years earlier (1 March for a 29 February)
TenYearsBefore(date) ==
    IF date.m = 2 /\ date.d = 29
    THEN [y |-> date.y - 10, m |-> 3, d |-> 1]
    ELSE [y |-> date.y - 10, m |-> date.m, d |-> date.d]

\* C10: POST /api/search with a non-empty string input calls searchContracts
\* with the input as keywords; when the trimmed input is ten or more
\* letters and digits (either case) no start or end date is passed, and
\* otherwise the end date is the current date and the start date the
\* current date minus 10 years.
C10_SearchModeAndDateWindow ==
    LET input == Field(req.body, "keywords") IN
    (req.route = "search" /\ input.t = "string" /\ input.s # <<>>) =>
        /\ call.op = "searchContracts"
        /\ call.args = searchParams
        /\ Field(call.args, "keywords") = input
        /\ IF IdentifierShaped(Stripped(input.s))
           THEN /\ Field(call.args, "startDate") = Undefined
                /\ Field(call.args, "endDate") = Undefined
           ELSE /\ Field(call.args, "endDate") = IsoDate(now)
                /\ Field(call.args, "startDate") = IsoDate(TenYearsBefore(now))

C10_Witness ==
    /\ req.route = "search"
    /\ Field(req.body, "keywords") =
          Str(<<" ", "a", "z", "a", "z", "a", "z", "a", "z", "a", "z", "\t">>)
    /\ call.op = "searchContracts"
    /\ Field(call.args, "startDate") = Undefined
    /\ Field(call.args, "endDate") = Undefined
    /\ timeline = <<Request(1)>>

\* ----------------------------------------------------------------- C11
\* the inputs each handler declares required: those its validation tests
RequiredInputs(route) ==
    CASE route = "search" -> <<"keywords">>
      [] route = "details" -> <<"awardId">>
      [] route \in DOMAIN AnalysisRoutes -> AnalysisRoutes[route].required
      [] route = "word" -> <<"content", "title">>
      [] route \in DOMAIN PdfRoutes -> <<"url">>
      [] OTHER -> <<>>

\* left out of the request, or sent as null or as the empty string
Missing(body, names) ==
    \E i \in 1..Len(names) : Field(body, names[i]) \in {Undefined, Null, Str(<<>>)}

\* a data-source request, an AI call or a browser launch was made
OutboundCallMade == timeline # <<>> \/ ai.calls > 0 \/ gen.pc # "none"

\* C11: on every endpoint, a request whose required input is missing is
\* answered with HTTP 400 in the handler's first step, and no outbound call
\* (data-source API, AI provider, headless browser) is made for it.
C11_MissingInputIs400 ==
    (req.route # "none" /\ Missing(req.body, RequiredInputs(req.route))) =>
        /\ res.sent
        /\ res.status = 400
        /\ ~OutboundCallMade
        /\ stage = "none"

C11_Witness ==
    /\ req.route = "gao"
    /\ Field(req.body, "contractInfo") = Str(<<"x">>)
    /\ Field(req.body, "awardId") = Undefined
    /\ res.status = 400
    /\ ai.calls = 0

C11_WitnessPdf ==
    /\ req.route = "fpds"
    /\ Field(req.body, "url") = Undefined
    /\ res.status = 400
    /\ gen = NoGen

\* ----------------------------------------------------------------- C12
ClientCallFailed == req.route \in {"search", "details"} /\ pc = "thrown"

\* C12: when the data-source call made for POST /api/search or GET
\* /api/award/details/:awardId fails (terminal 4xx, retry exhaustion, no-body
\* answers), the handler responds 500 and the message of the response is the
\* message of the error the client threw; a search response is either the
\* whole body the external service answered with, or an error without a
\* result list.
C12_ClientFailureIs500WithMessage ==
    /\ ClientCallFailed =>
          /\ res.sent
          /\ res.status = 500
          /\ Field(res.body, "message") = Str(result.error.message)
          /\ IF AnsweredClientError(lastOutcome)
             THEN Field(res.body, "message").s[1] = "API client error ("
             ELSE Field(res.body, "message").s[1] = "API request failed after "
    /\ (req.route = "search" /\ res.sent) =>
          \/ /\ res.status = 200
             /\ pc = "returned"
             /\ AnsweredBody(lastOutcome)
             /\ res.body = Field(lastOutcome.response, "data")
          \/ /\ res.status \in {400, 500}
             /\ pc # "returned"
             /\ Field(res.body, "results") = Undefined

C12_Witness ==
    /\ req.route = "details"
    /\ pc = "thrown"
    /\ AnsweredNoBody(lastOutcome)
    /\ Len(Requests) = DefaultRetryAttempts
    /\ res.status = 500
    /\ Field(res.body, "message").s =
          <<"API request failed after ", "3", " attempts: ", "Invalid response from API">>

C12_WitnessSearch ==
    /\ req.route = "search"
    /\ pc = "thrown"
    /\ AnsweredClientError(lastOutcome)
    /\ res.status = 500

\* ----------------------------------------------------------------- C13
\* the external service answered the details lookup with status 404
ReportedNotFound ==
    /\ req.route = "details"
    /\ ~lastOutcome.resolved
    /\ StatusOf(lastOutcome) = 404

\* C13 as stated: a details lookup of an award the external service reports
\* as not found (status 404) is answered with HTTP 404.
C13_NotFoundIs404 == ReportedNotFound => (res.sent /\ res.status = 404)

\* C13: a details lookup of an award the external service reports as not
\* found (status 404) is answered with HTTP 500 without a further request,
\* and the message of the response is the client error text naming status
\* 404.
C13_NotFoundIs500 ==
    ReportedNotFound =>
        /\ res.sent
        /\ res.status = 500
        /\ Last(timeline).e = "request"
        /\ Field(res.body, "error") = Str(<<"Failed to get award details">>)
        /\ SubSeq(Field(res.body, "message").s, 1, 3) = <<"API client error (", "404", "): ">>

C13_Witness ==
    /\ ReportedNotFound
    /\ res.status = 500
    /\ Field(res.body, "message").s = <<"API client error (", "404", "): ", "Award not found">>

\* ----------------------------------------------------------------- C14
ErrorResponse == res.sent /\ res.status \in {400, 404, 500}

\* C14: every error response of any endpoint (status 400, 404 or 500) is a
\* JSON object that carries both an error field and a message field.
C14_ErrorResponsesCarryErrorAndMessage ==
    ErrorResponse =>
        /\ res.body.t = "object"
        /\ Field(res.body, "error").t = "string"
        /\ Field(res.body, "message") # Undefined

\* the part of C14 the handlers keep: every error response carries an error
\* text, and every 500 response a message as well
C14_ErrorTextAlways ==
    ErrorResponse =>
        /\ res.body.t = "object"
        /\ Field(res.body, "error").t = "string"
        /\ res.status = 500 => Field(res.body, "message") # Undefined

\* ----------------------------------------------------------------- C15
PageEvents == SelectSeq(pager.log, LAMBDA ev : ev.e = "page")
GotEvents == SelectSeq(pager.log, LAMBDA ev : ev.e = "got")

PagerEnded == pager.pc \in {"returned", "thrown"}

\* the page requests carry pages 1, 2, 3, ... in this order
PagesConsecutive == \A i \in 1..Len(PageEvents) : PageEvents[i].page = Num(i)

\* one 500 ms pause before every page request but the first, and no pause
\* anywhere else
PausesOnlyBetweenPages ==
    /\ \A i \in 1..Len(pager.log) :
          /\ pager.log[i].e = "page" =>
                IF i = 1 THEN TRUE
                ELSE pager.log[i - 1] = Pause(500)
          /\ pager.log[i].e = "pause" =>
                /\ i > 1
                /\ pager.log[i - 1].e = "got"
                /\ IF i = Len(pager.log) THEN pager.pc = "pausing"
                   ELSE pager.log[i + 1].e = "page"
    /\ pager.log # <<>> => pager.log[1].e = "page"
    /\ (PagerEnded /\ pager.log # <<>>) => Last(pager.log).e # "pause"

\* C15: for every options argument, getAllContractsPaginated requests pages
\* 1, 2, 3, ... in consecutive order, takes exactly one 500 ms pause between
\* two consecutive page requests, and no pause before the first request or
\* after the last one.
C15_PagesConsecutiveWithPauses == PagesConsecutive /\ PausesOnlyBetweenPages

\* C15 for options that name no page: holds
C15_ConsecutiveWithoutPageOption ==
    /\ PausesOnlyBetweenPages
    /\ Field(pager.options, "page") = Undefined => PagesConsecutive

\* ----------------------------------------------------------------- C16
RECURSIVE Flatten(_)
Flatten(events) ==
    IF events = <<>> THEN <<>> ELSE Head(events).items \o Flatten(Tail(events))

\* everything the pages fetched so far returned, in the order of fetching
Fetched == Flatten(GotEvents)

CapSupplied == pager.maxResults.t = "number"
CapReached == CapSupplied /\ Len(Fetched) >= pager.maxResults.n

\* the page answered by the i-th event of the log returned fewer results
\* than the limit its request carried
ShortPageAt(i) ==
    /\ pager.log[i].e = "got"
    /\ Len(pager.log[i].items) < pager.log[i - 1].limit.n

\* C16: no page is requested after the first page that returned fewer
\* results than the limit sent in its payload, and the call does not return
\* after a page that returned as many results as were requested while no cap
\* has been reached.
C16_StopsExactlyOnShortPage ==
    /\ \A i \in 1..Len(pager.log) :
          ShortPageAt(i) => \A j \in (i + 1)..Len(pager.log) : pager.log[j].e # "page"
    /\ pager.pc = "returned" => (ShortPageAt(Len(pager.log)) \/ CapReached)

\* C16 for options that name no limit: holds
C16_StopsOnShortPageWithoutLimitOption ==
    Field(pager.options, "limit") = Undefined => C16_StopsExactlyOnShortPage

\* ----------------------------------------------------------------- C17
IsPrefix(short, long) ==
    /\ Len(short) <= Len(long)
    /\ SubSeq(long, 1, Len(short)) = short

\* what had been fetched before the i-th event of the log
FetchedBefore(i) ==
    Flatten(SelectSeq(SubSeq(pager.log, 1, i - 1), LAMBDA ev : ev.e = "got"))

CapKept ==
    /\ pager.pc = "returned" =>
          /\ Len(pager.out.value.items) <= pager.maxResults.n
          /\ IsPrefix(pager.out.value.items, Fetched)
    /\ \A i \in 2..Len(pager.log) :
          pager.log[i].e = "page" => Len(FetchedBefore(i)) < pager.maxResults.n

\* C17: whenever a cap maxResults is supplied (any non-negative integer, 0
\* included), the returned list has at most maxResults elements, it is a
\* prefix of the concatenation of the fetched pages, and no page is
\* requested after the accumulated count has reached the cap.
C17_CapRespected == CapSupplied => CapKept

\* C17 for a positive cap: holds
C17_PositiveCapRespected == (CapSupplied /\ pager.maxResults.n > 0) => CapKept

\* ----------------------------------------------------------------- C18
\* generatePDFFromURL returned the path of the content PDF to the handler
ContentPdfHandedOver == req.route \in DOMAIN PdfRoutes /\ gen.exit.state = "returned"

\* C18: on both PDF export endpoints, once generatePDFFromURL has written
\* the temporary content PDF, the file no longer exists when the handler has
\* sent its response, on the success path and on every failure path.
C18_TempFileRemoved == (ContentPdfHandedOver /\ res.sent) => file = "absent"

\* C18 on the success path: holds
C18_RemovedOnSuccess ==
    (ContentPdfHandedOver /\ res.sent /\ res.status = 200) => file = "absent"

\* ----------------------------------------------------------------- C19
GenEnded == gen.pc = "done"

\* C19: when a call of generatePDFFromURL that launched a browser returns
\* or throws, close has been invoked on the page (if one was opened) and
\* then on the browser, on every exit path; a failure while closing the
\* page does not prevent closing the browser; and the handler goes on only
\* after the call has ended.
C19_TeardownOnEveryExit ==
    /\ (GenEnded /\ gen.browser # "null") =>
          /\ gen.closes = IF gen.page # "null" THEN <<"page", "browser">> ELSE <<"browser">>
          /\ gen.browser \in {"closed", "closeFailed"}
          /\ gen.page \in {"null", "closed", "closeFailed"}
    /\ (gen.pc # "none" /\ (res.sent \/ stage # "none")) => GenEnded
    /\ (GenEnded /\ gen.browser = "null") => gen.closes = <<>>

C19_Witness ==
    /\ GenEnded
    /\ gen.exit.state = "thrown"
    /\ gen.exit.error.message = <<"PDF generation failed: ", "Navigation timeout exceeded">>
    /\ gen.page = "closeFailed"
    /\ gen.closes = <<"page", "browser">>
    /\ res.status = 500

C19_WitnessNoPage ==
    /\ GenEnded
    /\ gen.page = "null"
    /\ gen.closes = <<"browser">>

\* ----------------------------------------------------------------- C20
\* the path has been returned and the handler has not yet removed the file
PathReturned == gen.exit.state = "returned" /\ stage # "sent"

\* C20: generatePDFFromURL returns an output path only if the file at that
\* path exists and is non-empty; when the file is missing or has size zero
\* the call fails.
C20_ReturnsOnlyNonEmptyFile == PathReturned => file = "written"

\* C20 for a missing file: holds
C20_MissingFileFails == PathReturned => file # "absent"

\* ------------------------------------------------- Word export: notions
Converted == req.route = "word" /\ doc # NoDoc

\* the elements emitted after the header block
BodyChildren ==
    SubSeq(doc.children, Len(HeaderBlock(req.body)) + 1, Len(doc.children))

TablesEmitted == SelectSeq(BodyChildren, LAMBDA el : el.kind = "table")

LineText(i) == Trim(doc.lines[i])

PipeDelimited(t) == t # <<>> /\ t[1] = "|" /\ t[Len(t)] = "|"

BoldOnly(t) ==
    /\ Len(t) >= 4
    /\ SubSeq(t, 1, 2) = <<"*", "*">>
    /\ SubSeq(t, Len(t) - 1, Len(t)) = <<"*", "*">>
    /\ \A i \in 1..Len(t) : t[i] # "|"

\* a pipe-delimited line whose cells hold only dashes, colons and blanks
SeparatorRow(t) ==
    /\ PipeDelimited(t)
    /\ \E i \in 1..Len(t) : t[i] = "-"
    /\ \A i \in 1..Len(t) : t[i] \in {"|", "-", ":", " "}

PipeLines == {i \in 1..Len(doc.lines) : PipeDelimited(LineText(i))}
DataLines == {i \in PipeLines : ~SeparatorRow(LineText(i))}

\* the input lines the rows of a table come from
RowLines(el) == {el.rows[r].line : r \in 1..Len(el.rows)}

RECURSIVE RowCount(_)
RowCount(tables) ==
    IF tables = <<>> THEN 0 ELSE Len(Head(tables).rows) + RowCount(Tail(tables))

\* ----------------------------------------------------------------- C21
\* C21: every table separator row (a pipe-delimited line whose cells hold
\* only dashes, colons and blanks), for tables of any number of columns, is
\* dropped and never appears as a row of an emitted table.
C21_SeparatorRowsDropped ==
    Converted =>
        \A t \in 1..Len(TablesEmitted) :
            \A i \in RowLines(TablesEmitted[t]) : ~SeparatorRow(LineText(i))

\* C21 for separators of one column: holds
C21_OneColumnSeparatorDropped ==
    Converted =>
        \A t \in 1..Len(TablesEmitted) :
            \A i \in RowLines(TablesEmitted[t]) : LineText(i) # <<"|", ":", "-", "|">>

\* ----------------------------------------------------------------- C22
\* the cells an input row is written with: one less than its pipes
CellsWritten(t) == Cardinality({i \in 1..Len(t) : t[i] = "|"}) - 1

\* C22: the emitted tables have as many rows as the text has pipe-delimited
\* lines minus separator rows, and each emitted row has as many cells as its
\* input line, lines with empty cells included.
C22_RowsAndCellsPreserved ==
    Converted =>
        /\ RowCount(TablesEmitted) = Cardinality(DataLines)
        /\ \A t \in 1..Len(TablesEmitted) :
              \A r \in 1..Len(TablesEmitted[t].rows) :
                  Len(TablesEmitted[t].rows[r].cells) =
                      CellsWritten(LineText(TablesEmitted[t].rows[r].line))

\* C22 for texts without a separator of several columns and without an empty
\* cell: holds
C22_PreservedForFilledCells ==
    (/\ Converted
     /\ \A i \in PipeLines :
           LineText(i) \notin {<<"|", "-", "|", "-", "|">>, <<"|", "a", "|", "|", "b", "|">>}) =>
        /\ RowCount(TablesEmitted) = Cardinality(DataLines)
        /\ \A t \in 1..Len(TablesEmitted) :
              \A r \in 1..Len(TablesEmitted[t].rows) :
                  Len(TablesEmitted[t].rows[r].cells) =
                      CellsWritten(LineText(TablesEmitted[t].rows[r].line))

\* ----------------------------------------------------------------- C23
\* lines i and j lie in one run of pipe-delimited lines
SameRun(i, j) == \A k \in Min(i, j)..(IF i < j THEN j ELSE i) : k \in PipeLines

\* C23: a run of pipe-delimited lines is ended by the first following line
\* that is not pipe-delimited (blank, bold-only or other) and is emitted as
\* exactly one table: the rows of a table come from one run, the rows of a
\* run are in one table, and a run with rows yields a table also at the end
\* of the text.
C23_OneTablePerRun ==
    Converted =>
        /\ \A t \in 1..Len(TablesEmitted) :
              \A i, j \in RowLines(TablesEmitted[t]) : SameRun(i, j)
        /\ \A t, u \in 1..Len(TablesEmitted) :
              (\E i \in RowLines(TablesEmitted[t]) :
                  \E j \in RowLines(TablesEmitted[u]) : SameRun(i, j)) => t = u
        /\ \A i \in DataLines :
              \E t \in 1..Len(TablesEmitted) : i \in RowLines(TablesEmitted[t])

\* C23 for runs ended by a line of text or by the end of the text: holds
C23_RunEndedByTextOrEnd ==
    (/\ Converted
     /\ \A i \in 1..Len(doc.lines) :
           (i > 1 /\ (i - 1) \in PipeLines) =>
               (i \in PipeLines \/ (LineText(i) # <<>> /\ ~BoldOnly(LineText(i))))) =>
        /\ \A t \in 1..Len(TablesEmitted) :
              \A i, j \in RowLines(TablesEmitted[t]) : SameRun(i, j)
        /\ \A t, u \in 1..Len(TablesEmitted) :
              (\E i \in RowLines(TablesEmitted[t]) :
                  \E j \in RowLines(TablesEmitted[u]) : SameRun(i, j)) => t = u
        /\ \A i \in DataLines :
              \E t \in 1..Len(TablesEmitted) : i \in RowLines(TablesEmitted[t])

\* ----------------------------------------------------------------- C24
MarkupFree(text) == \A i \in 1..Len(text) : text[i] \notin {"*", "[", "]", "(", ")"}

PlainLines ==
    {i \in 1..Len(doc.lines) :
        LineText(i) # <<>> /\ ~BoldOnly(LineText(i)) /\ ~PipeDelimited(LineText(i))}

HeadingLines == {i \in 1..Len(doc.lines) : BoldOnly(LineText(i))}

BecomesPlainParagraph(i) ==
    \E k \in 1..Len(BodyChildren) :
        /\ BodyChildren[k].line = i
        /\ BodyChildren[k].kind \in {"paragraph", "unstyled"}
        /\ BodyChildren[k].text # <<>>
        /\ MarkupFree(BodyChildren[k].text)

BecomesHeading(i) ==
    \E k \in 1..Len(BodyChildren) :
        /\ BodyChildren[k].line = i
        /\ BodyChildren[k].kind = "heading"
        /\ BodyChildren[k].text # <<>>
        /\ MarkupFree(BodyChildren[k].text)

\* C24: every non-empty line that is neither bold-only nor pipe-delimited
\* becomes a plain paragraph with bold markers and link syntax stripped,
\* whatever the scanner state when it is read (the line right after a table
\* included); bold-only lines become level-2 headings.
C24_PlainLinesStripped ==
    Converted =>
        /\ \A i \in PlainLines : BecomesPlainParagraph(i)
        /\ \A i \in HeadingLines : BecomesHeading(i)

\* C24 for lines read outside a table, and for headings: holds
C24_StrippedOutsideTables ==
    Converted =>
        /\ \A i \in PlainLines :
              (\A j \in 1..(i - 1) : j \notin PipeLines) => BecomesPlainParagraph(i)
        /\ \A i \in HeadingLines : BecomesHeading(i)

\* ----------------------------------------------------------------- C28
\* the input lines an element comes from
SourceLines(el) == IF el.kind = "table" THEN RowLines(el) ELSE {el.line}

\* C28: the elements emitted after the header block appear in the order of
\* the input lines they come from (a table before the heading or paragraph
\* of a line that follows its last row), and every table row of the input
\* is emitted exactly once.
C28_ElementsInInputOrder ==
    Converted =>
        /\ \A j, k \in 1..Len(BodyChildren) :
              j < k => \A a \in SourceLines(BodyChildren[j]) :
                          \A b \in SourceLines(BodyChildren[k]) : a <= b
        /\ \A i \in 1..Len(doc.lines) :
              (PipeDelimited(LineText(i)) /\ ~IsSeparator(LineText(i))) =>
                  Cardinality({<<t, r>> \in (1..Len(TablesEmitted)) \X (1..MaxLines + 1) :
                                  /\ r <= Len(TablesEmitted[t].rows)
                                  /\ TablesEmitted[t].rows[r].line = i}) = 1

\* C28, rows: no accumulated row is lost or emitted twice; holds
C28_NoRowLostOrRepeated ==
    Converted =>
        \A i \in 1..Len(doc.lines) :
            (PipeDelimited(LineText(i)) /\ ~IsSeparator(LineText(i))) =>
                Cardinality({<<t, r>> \in (1..Len(TablesEmitted)) \X (1..MaxLines + 1) :
                                /\ r <= Len(TablesEmitted[t].rows)
                                /\ TablesEmitted[t].rows[r].line = i}) = 1

\* ------------------------------------------- timeouts, races, catch blocks
AnalysisRequest == req.route \in DOMAIN AnalysisRoutes

TimeoutWindowMs == 60000..120000

\* the request has a bound of its own on the wait for the outbound call
HasOwnTimeout(route) ==
    \/ AnalysisRoutes[route].timerMs \in TimeoutWindowMs
    \/ AnalysisRoutes[route].transportMs \in TimeoutWindowMs

\* the message of the response body
MessageSent == Field(res.body, "message")

TimedOut == AnalysisRequest /\ IncludesTimeout(ai.failure.message)

\* no continuation of the handler is pending
HandlerEnded ==
    /\ req.route # "none"
    /\ pc \notin {"awaiting", "sleeping"}
    /\ ~(ai.call = "pending" /\ ai.timer # "fired")
    /\ gen.pc \in {"none", "done"}
    /\ stage \notin (DOMAIN StageNext) \cup {"packing"}

CatchesAt(sites) == SelectSeq(obs.catches, LAMBDA c : c.site \in sites)

\* ----------------------------------------------------------------- C25
\* C25: each analysis requester (perplexity, gemini, contract research,
\* tools research, GAO research, summarize) bounds the wait for its outbound
\* AI call by a timeout of its own of 60 to 120 seconds: no requester waits
\* on a pending call without such a bound, and a request that timed out has
\* failed with a timeout-specific error.
C25_EveryRequesterTimesOut ==
    /\ (AnalysisRequest /\ ai.call = "pending") => HasOwnTimeout(req.route)
    /\ TimedOut =>
          /\ res.status = 500
          /\ MessageSent.t = "string" /\ IncludesTimeout(MessageSent.s)

\* C25 for the five requesters other than summarize: holds.  The four raced
\* ones arm a timer of 60 or 120 seconds before they wait, perplexity gives
\* its HTTP client a timeout of 90 seconds.
C25_AllButSummarizeTimeOut ==
    /\ (AnalysisRequest /\ req.route # "summarize" /\ ai.call = "pending") =>
          /\ HasOwnTimeout(req.route)
          /\ req.route # "perplexity" => ai.timer \in {"armed", "fired"}
          /\ (ai.timer = "fired") = res.sent
    /\ TimedOut =>
          /\ res.status = 500
          /\ MessageSent.t = "string" /\ IncludesTimeout(MessageSent.s)

\* ----------------------------------------------------------------- C26
\* C26: every analysis request makes at most one outbound AI call; a call
\* that failed or timed out is not made again, and its failure is the
\* response of the request: status 500 with the message of the error.
C26_OneCallFailureSurfaced ==
    AnalysisRequest =>
        /\ ai.calls <= 1
        /\ ai.failure # NoError =>
              /\ ai.calls = 1
              /\ ai.call # "pending" \/ ai.timer = "fired"
              /\ res.sent /\ res.status = 500
              /\ Field(res.body, "error") = Str(AnalysisRoutes[req.route].failed)
              /\ MessageSent \in
                    {Str(ai.failure.message),
                     Field(Field(Field(ai.failure.response, "data"), "error"), "message")}
              /\ MessageSent.t = "string"

\* a call that timed out: the timer decided the race and the 500 is out
C26_Witness ==
    /\ AnalysisRequest
    /\ ai.timer = "fired" /\ ai.call = "pending"
    /\ ai.calls = 1
    /\ res.status = 500
    /\ MessageSent = Str(AnalysisRoutes[req.route].timeout)

\* a call the provider rejected
C26_WitnessRejected ==
    /\ req.route = "summarize"
    /\ ai.call = "settled"
    /\ ai.failure.message = <<"429 Too Many Requests">>
    /\ res.status = 500

\* ----------------------------------------------------------------- C27
\* C27 as stated: every error caught by a catch block is logged and raised
\* to the caller of the operation as a failure.
C27_EveryCatchLogsAndRaises ==
    \A i \in 1..Len(obs.catches) : obs.catches[i].logged /\ obs.catches[i].raised

\* C27: every error caught by a catch block is logged.  The catch of a
\* request handler answers 500 with a message and the catch of the PDF
\* generator rethrows the error wrapped.  The retry loop rethrows a 4xx
\* error and the error of the last attempt; an earlier error is followed by
\* a backoff delay and another attempt.  The two catch blocks of the
\* generator's cleanup only log: the call ends as it would have.
C27_EveryCatchLogs ==
    /\ \A i \in 1..Len(obs.catches) :
          LET c == obs.catches[i] IN
          /\ c.logged
          /\ c.site \in {"handler", "generator", "retry", "page.close", "browser.close"}
          /\ c.site \in {"handler", "generator"} => c.raised
          /\ c.site \in {"page.close", "browser.close"} => ~c.raised
          /\ (c.site = "retry" /\ c.raised) => (pc = "thrown" /\ result.state = "thrown")
    /\ CatchesAt({"handler"}) # <<>> =>
          /\ res.sent /\ res.status = 500
          /\ MessageSent.t = "string" /\ MessageSent.s # <<>>
    /\ CatchesAt({"generator"}) # <<>> =>
          /\ gen.exit.state = "thrown"
          /\ startsWith(gen.exit.error.message, <<"PDF generation failed: ">>)
    /\ Len(SelectSeq(CatchesAt({"retry"}), LAMBDA c : ~c.raised)) = Len(DelaysTaken)
    /\ Len(CatchesAt({"page.close", "browser.close"})) =
          Cardinality({k \in {"page", "browser"} : gen[k] = "closeFailed"})

\* the content PDF was produced although closing the page failed, and a
\* search was answered 200 after an attempt that failed
C27_Witness ==
    \/ /\ gen.pc = "done" /\ gen.exit.state = "returned"
       /\ CatchesAt({"page.close"}) # <<>>
    \/ /\ req.route = "search" /\ res.status = 200
       /\ CatchesAt({"retry"}) # <<>>

C27_WitnessCleanup ==
    /\ gen.pc = "done" /\ gen.exit.state = "returned"
    /\ CatchesAt({"page.close"}) # <<>>
    /\ CatchesAt({"browser.close"}) # <<>>

C27_WitnessRetried ==
    /\ req.route = "search" /\ res.status = 200
    /\ CatchesAt({"retry"}) # <<>>

\* ----------------------------------------------------------------- C29
\* C29: for every request to any endpoint and every order of the outbound
\* call's completion, its failure and the timer, the handler sends exactly
\* one response: never a second one, and one once the handler has ended.  A
\* timer that fires after the call has completed changes neither the
\* response nor the errors caught, and the Word export whose file name
\* cannot be built after the content type was set still answers once.
C29_ExactlyOneResponse ==
    /\ obs.responses <= 1
    /\ res.sent = (obs.responses = 1)
    /\ HandlerEnded => obs.responses = 1
    /\ (AnalysisRequest /\ ai.call = "settled" /\ ai.timer = "fired") =>
          /\ obs.responses = 1
          /\ Len(obs.catches) <= 1
          /\ (res.status = 200) = (obs.catches = <<>>)
    /\ (req.route = "word" /\ stage = "done") => obs.responses = 1

\* the call answered, the 200 went out, and the timer fired afterwards
C29_Witness ==
    /\ AnalysisRequest
    /\ ai.call = "settled" /\ ai.timer = "fired"
    /\ ai.failure = NoError
    /\ res.status = 200
    /\ obs.responses = 1

\* the timer fired first and the call failed afterwards
C29_WitnessLateFailure ==
    /\ AnalysisRequest
    /\ ai.call = "settled" /\ ai.timer = "fired"
    /\ ai.failure.message = AnalysisRoutes[req.route].timeout
    /\ obs.responses = 1 /\ Len(obs.catches) = 1

\* the Word export throws while building the file name, after setHeader
C29_WitnessWord ==
    /\ req.route = "word" /\ stage = "done"
    /\ Field(req.body, "companyName").t # "string"
    /\ res.status = 500 /\ obs.responses = 1

\* ----------------------------------------------------------------- C30
\* the retryAttempts option the client was constructed with
ConfiguredAttempts == Field(client.options, "retryAttempts")

\* C30: for every value of the retryAttempts option (0 and negative
\* integers included) a call sends at least one request before it reports
\* failure, and never more requests than the configured value when that
\* value is 0 or more.
C30_RequestsWithinConfigured ==
    (client.constructed /\ ConfiguredAttempts.t = "number") =>
        /\ pc = "thrown" => Len(Requests) >= 1
        /\ ConfiguredAttempts.n >= 0 => Len(Requests) <= ConfiguredAttempts.n

\* C30 for a positive option: holds
C30_PositiveOptionRespected ==
    (client.constructed /\ ConfiguredAttempts.t = "number" /\ ConfiguredAttempts.n > 0) =>
        /\ pc = "thrown" => Len(Requests) >= 1
        /\ Len(Requests) <= ConfiguredAttempts.n

\* C30 for the option 0: the default of 3 attempts applies
C30_ZeroOptionMeansDefault ==
    (client.constructed /\ ConfiguredAttempts = Num(0)) =>
        /\ client.retryAttempts = DefaultRetryAttempts
        /\ pc = "thrown" => Len(Requests) >= 1
        /\ Len(Requests) <= DefaultRetryAttempts

====
